---- MODULE Spec2Model ----
(***************************************************************************)
(* Multi-agent deliberation pipelines of trading-crew:                     *)
(*   - run_universal_analysis  (scripts/universal_agents.py)               *)
(*   - run_commodity_analysis  (scripts/commodity_agents.py)               *)
(*   - risk_manager_node       (TradingAgents/.../risk_manager.py)         *)
(* together with the Gemini inference client (scripts/gemini_utils.py).    *)
(* One step of the model is one iteration of the retry loop of the         *)
(* inference call in progress: the request, the backend's answer and the   *)
(* client's and orchestrator's reaction to it.                             *)
(***************************************************************************)
EXTENDS Integers, Sequences, FiniteSets, TLC

\* ------------------------------------------------------------------------
\* Bounds of the model
\* ------------------------------------------------------------------------
\* Number of backend answers per run that are not a usable text.
MaxFaults == 3
\* Length of the directional judge's text, in tokens.
MaxJudgeLen == 1
\* Length of the texts the marker extraction is checked on, in tokens.
MaxMarkerLen == 3
\* Length of the texts the JSON extraction is checked on, in tokens.
MaxTextLen == 4

\* Symbols handed to one multi-symbol worker.
MaxSymbols == 4

\* Prices and barriers of a position, besides the 80 and 82 of the example.
MaxLevel == 6

\* Dates two return series can have in common.
MaxOverlap == 21

\* Signals added to one daily summary.
MaxSignals == 2

\* Stocks of the list the daily run works through.
MaxStocks == 2

\* Keys the rotator was configured with.
MaxKeys == 2

\* ------------------------------------------------------------------------
\* Program constants
\* ------------------------------------------------------------------------
MAX_RETRIES == 3
RETRY_DELAY == 5
EMPTY_DELAY == 2
JSON_RATE_DELAY == 5
ANALYST_MAX_RETRIES == 2
DEBATE_ROUNDS == 2
\* comparison_worker.main: ThreadPoolExecutor(max_workers=min(len(symbols), 2)),
\* and the number of symbols it accepts.
COMPARISON_WORKERS == 2
MIN_COMPARE == 2
MAX_COMPARE == 4

\* portfolio_worker.run_portfolio_analysis: ThreadPoolExecutor(max_workers=3).
PORTFOLIO_WORKERS == 3

\* TradingBot.run: max_retries of the loop around one stock.
BOT_MAX_RETRIES == 3

\* RiskCommand._calculate_risk_metrics: a pair is correlated when
\* len(common_idx) > 20; the score starts at 50 and the sector tiers add
\* 25, 15 and 5.
MIN_OVERLAP == 20
BASE_SCORE == 50
SECTOR_HIGH == 25
SECTOR_MID == 15
SECTOR_LOW == 5

\* Prices are whole dollars, confidences are percent, exchange rates are
\* hundredths (1.0 is 100).
FALLBACK_RATE == 100
COMMODITY_EUR_RATE == 92
\* Values the outside world supplies: the price a search reports, the
\* EUR/USD rate yfinance or the search reports.
Prices == {100}
MarketRates == {125}

\* ------------------------------------------------------------------------
\* Texts.  A text is a tuple; the empty text is the empty tuple.
\* ------------------------------------------------------------------------
Empty == <<>>

ModelText(role, r) == <<role, r>>

NO_TECHNICAL == <<"No technical data available.">>
NO_NEWS == <<"No recent news available.">>
NO_FUNDAMENTAL == <<"No fundamental data available.">>
Placeholders == {NO_TECHNICAL, NO_NEWS, NO_FUNDAMENTAL}

\* Tokens of the directional judge's text: the three literal markers and
\* any other word.
Markers == {"**LONG**", "**SHORT**", "**HOLD**"}
Tokens == Markers \cup {"word"}

RECURSIVE SeqsUpTo(_, _)
SeqsUpTo(S, n) ==
    IF n = 0 THEN {<<>>}
    ELSE LET shorter == SeqsUpTo(S, n - 1)
         IN shorter \cup {Append(s, x) : s \in {t \in shorter : Len(t) = n - 1}, x \in S}

JudgeTexts == SeqsUpTo(Tokens, MaxJudgeLen) \ {<<>>}
MarkerTexts == SeqsUpTo(Tokens, MaxMarkerLen) \ {<<>>}

\* "marker in text" of Python, on token sequences.
Contains(text, marker) == \E i \in 1..Len(text) : text[i] = marker

\* ------------------------------------------------------------------------
\* Answers of the backend to one request
\* ------------------------------------------------------------------------
Outcomes == {"ok", "empty", "e429", "err"}
Errors == {"e429", "err"}

\* ------------------------------------------------------------------------
\* gemini_utils.call_gemini: what one iteration of the retry loop does with
\* the backend's answer.  act is "return" (text returned), "retry" (sleep
\* delay seconds, next attempt), "raise" (the error leaves the call) or
\* "exhaust" (loop over, the empty string is returned).
\* ------------------------------------------------------------------------
CallGeminiFlatDelay(outcome, att, max_retries, retry_delay) ==
    IF outcome = "ok" THEN [act |-> "return", delay |-> 0]
    ELSE IF outcome \in Errors THEN
        IF outcome = "e429" /\ att < max_retries - 1
        THEN [act |-> "retry", delay |-> retry_delay]
        ELSE IF att = max_retries - 1
        THEN [act |-> "raise", delay |-> 0]
        ELSE [act |-> "retry", delay |-> EMPTY_DELAY]
    ELSE IF att < max_retries - 1
        THEN [act |-> "retry", delay |-> EMPTY_DELAY]
        ELSE [act |-> "exhaust", delay |-> 0]

CallGemini(outcome, att, max_retries, retry_delay) ==
    IF outcome = "ok" THEN [act |-> "return", delay |-> 0]
    ELSE IF outcome \in Errors THEN
        IF outcome = "e429" /\ att < max_retries - 1
        THEN [act |-> "retry", delay |-> retry_delay * (att + 1)]
        ELSE IF att = max_retries - 1
        THEN [act |-> "raise", delay |-> 0]
        ELSE [act |-> "retry", delay |-> EMPTY_DELAY]
    ELSE IF att < max_retries - 1
        THEN [act |-> "retry", delay |-> EMPTY_DELAY]
        ELSE [act |-> "exhaust", delay |-> 0]

CallGeminiVisionKeepsRetrying(outcome, att, max_retries, retry_delay) ==
    IF outcome = "ok" THEN [act |-> "return", delay |-> 0]
    ELSE IF outcome \in Errors THEN
        IF outcome = "e429"
        THEN [act |-> "retry", delay |-> retry_delay * (att + 1)]
        ELSE IF att = max_retries - 1
        THEN [act |-> "raise", delay |-> 0]
        ELSE [act |-> "retry", delay |-> EMPTY_DELAY]
    ELSE IF att < max_retries - 1
        THEN [act |-> "retry", delay |-> EMPTY_DELAY]
        ELSE [act |-> "exhaust", delay |-> 0]

\* gemini_utils.call_gemini_vision: the same loop, on a prompt and an image.
CallGeminiVision(outcome, att, max_retries, retry_delay) ==
    IF outcome = "ok" THEN [act |-> "return", delay |-> 0]
    ELSE IF outcome \in Errors THEN
        IF outcome = "e429" /\ att < max_retries - 1
        THEN [act |-> "retry", delay |-> retry_delay * (att + 1)]
        ELSE IF att = max_retries - 1
        THEN [act |-> "raise", delay |-> 0]
        ELSE [act |-> "retry", delay |-> EMPTY_DELAY]
    ELSE IF att < max_retries - 1
        THEN [act |-> "retry", delay |-> EMPTY_DELAY]
        ELSE [act |-> "exhaust", delay |-> 0]

\* gemini_utils.call_gemini_json: parsed is TRUE when the answer is a text
\* that json.loads accepts.  Errors never leave the call; after the loop
\* None is returned ("exhaust").
CallGeminiJsonGivesUpOnText(outcome, parsed, att, max_retries) ==
    IF outcome = "ok" /\ parsed THEN [act |-> "return", delay |-> 0]
    ELSE IF outcome = "e429" THEN
        [act |-> IF att < max_retries - 1 THEN "retry" ELSE "exhaust",
         delay |-> JSON_RATE_DELAY * (att + 1)]
    ELSE IF outcome = "err" /\ att < max_retries - 1
        THEN [act |-> "retry", delay |-> EMPTY_DELAY]
        ELSE [act |-> "exhaust", delay |-> 0]

CallGeminiJson(outcome, parsed, att, max_retries) ==
    IF outcome = "ok" /\ parsed THEN [act |-> "return", delay |-> 0]
    ELSE IF outcome = "e429" THEN
        [act |-> IF att < max_retries - 1 THEN "retry" ELSE "exhaust",
         delay |-> JSON_RATE_DELAY * (att + 1)]
    ELSE IF att < max_retries - 1
        THEN [act |-> "retry", delay |-> EMPTY_DELAY]
        ELSE [act |-> "exhaust", delay |-> 0]

\* commodity_agents.call_gemini_with_search / call_gemini_deep_think: one
\* request, no loop, no handler: "response.text or ''".
CallGeminiPlain(outcome) ==
    IF outcome \in Errors THEN [act |-> "raise", delay |-> 0]
    ELSE IF outcome = "ok" THEN [act |-> "return", delay |-> 0]
    ELSE [act |-> "exhaust", delay |-> 0]

\* ------------------------------------------------------------------------
\* Decision records
\* ------------------------------------------------------------------------
Signals == {"LONG", "SHORT", "HOLD", "IGNORE"}

Tier(level, price, risk) ==
    [ko_level_usd |-> level,
     distance_pct |-> ((IF level > price THEN level - price ELSE price - level) * 100) \div price,
     risk |-> risk]

Strategies(c, m, a, price) ==
    [conservative |-> Tier(c, price, "low"),
     moderate |-> Tier(m, price, "medium"),
     aggressive |-> Tier(a, price, "high")]

\* Knockout levels a model may answer with: all below the price, all above
\* it, one on the other side, one at the price.
StrategyAnswers(p) ==
    {Strategies(p - 20, p - 12, p - 7, p),
     Strategies(p + 20, p + 12, p + 7, p),
     Strategies(p - 20, p + 12, p - 7, p),
     Strategies(p - 20, p - 12, p, p)}

Zone(level) == [level_usd |-> level, description |-> <<"zone">>]

HOLD_TIMEFRAMES == [short_term |-> "HOLD", medium_term |-> "HOLD", long_term |-> "HOLD"]

\* A record as a model answer encodes it (TradeDecisionSchema).
ModelRecord(s, c, u, p, st) ==
    [signal |-> s, confidence |-> c, unable_to_assess |-> u,
     price_usd |-> p, price_eur |-> p,
     strategies |-> st,
     support_zones |-> <<Zone(p - 5), Zone(p - 10)>>,
     resistance_zones |-> <<Zone(p + 5), Zone(p + 10)>>,
     detailed_analysis |-> <<"analysis">>,
     timeframes |-> [short_term |-> "LONG", medium_term |-> "HOLD", long_term |-> "SHORT"]]

\* Levels on the side the prompt asks for.
AskedStrategies(s, p) ==
    IF s = "SHORT" THEN Strategies(p + 20, p + 12, p + 7, p)
    ELSE Strategies(p - 20, p - 12, p - 7, p)

\* The records the model answers with: every combination of signal,
\* confidence and unable_to_assess with the levels asked for, and every
\* combination of signal and levels with a confident assessment.
ModelRecords ==
    {ModelRecord(s, c, u, p, AskedStrategies(s, p)) :
        s \in Signals, c \in {0, 70}, u \in BOOLEAN, p \in Prices}
    \cup {ModelRecord(s, 70, FALSE, p, st) :
            s \in Signals, p \in Prices, st \in UNION {StrategyAnswers(q) : q \in Prices}}

\* Texts the model can answer the final judgment with: the bare JSON of a
\* record, a fenced block holding it, prose followed by such a block, or
\* prose without any JSON.
JsonForms == {"bare", "fenced", "prose_fenced"}
JudgeAnswers ==
    {[form |-> f, rec |-> r] : f \in JsonForms, r \in ModelRecords}
        \cup {[form |-> "prose"]}

NoRecord == [form |-> "none"]

\* json.loads(response.text) in call_gemini_json (schema given): the whole
\* text must be JSON.
JsonLoads(text) == IF text.form = "bare" THEN text ELSE NoRecord

\* commodity_agents.risk_judge: a leading fence is cut off, then json.loads.
CommodityParse(text) == IF text.form \in {"bare", "fenced"} THEN text ELSE NoRecord

\* risk_manager.parse_trade_decision_json: the first fenced block anywhere
\* in the text; the last resort pattern needs an object without nested
\* braces, which a record with strategies is not.
parse_trade_decision_json(text) ==
    IF text.form \in {"fenced", "prose_fenced"} THEN text ELSE NoRecord

\* ------------------------------------------------------------------------
\* State
\* ------------------------------------------------------------------------
VARIABLES
    pipeline,        \* which orchestrator runs
    phase,           \* the call the orchestrator is at
    round_num,       \* debate round, 1-based
    attempt,         \* loop index of the inference call in progress
    mode,            \* "vision" while the call in progress is the vision call
    state,           \* UniversalDebateState / CommodityDebateState
    judge_response,  \* text of the directional judge
    eur_rate,        \* EUR/USD rate risk_judge works with
    chart_analysis,  \* chart text risk_judge puts into its prompt
    status,          \* "running", "done", "degraded" or "raised"
    error,           \* the exception that left the pipeline
    callLog,         \* history: the iterations of the current (or last) call
    judgeLog,        \* history: the requests of the final judgment
    faults,          \* history: backend answers that were not a usable text
    visited,         \* history: the phases of the run in order of entry
    arg,             \* argument of the helper function under study
    result,          \* what the helper function did with it
    pool,            \* the ThreadPoolExecutor of a multi-symbol worker
    telegram,        \* telegram_worker.main: its inputs and how far it got
    bot,             \* TradingBot.run: the daily loop over the stock list
    rotator          \* AlphaVantageKeyRotator and the threads calling it

\* The helper functions and the multi-symbol workers run outside the
\* pipelines: a pipeline step leaves their variables alone.
pure == <<arg, result, pool, telegram, bot, rotator>>

vars == <<pipeline, phase, round_num, attempt, mode, state, judge_response,
          eur_rate, chart_analysis, status, error, callLog, judgeLog, faults,
          visited, arg, result, pool, telegram, bot, rotator>>

\* No helper function has been applied.
NotApplied == [fn |-> "none", value |-> "none"]

\* No worker has opened an executor.
NoPool ==
    [worker |-> "none", symbols |-> 0, max_workers |-> 0, submitted |-> 0,
     queue |-> <<>>, threads |-> 0, running |-> {}, completed |-> <<>>,
     results |-> <<>>, closed |-> FALSE]

Pipelines == {"universal", "commodity", "tradingagents"}

GatherPhases == {"gather_price", "gather_technical", "gather_news", "gather_cot",
                 "gather_fundamental", "create_chart"}
DebatePhases == {"bull", "bear"}
RiskDebatePhases == {"risky", "safe", "neutral"}
AnalystPhases == DebatePhases \cup RiskDebatePhases
JudgeRiskPhases == {"risk_judge_fx", "risk_judge_fx_gemini", "risk_judge_chart",
                    "risk_judge", "rm_invoke", "rm_retry"}

\* The phase of the specification a call belongs to.
Macro(ph, rnd) ==
    IF ph \in GatherPhases THEN <<"GATHER">>
    ELSE IF ph \in DebatePhases THEN <<"DEBATE", rnd>>
    ELSE IF ph = "investment_judge" THEN <<"JUDGE_DIRECTION">>
    ELSE IF ph \in RiskDebatePhases THEN <<"RISK_DEBATE">>
    ELSE <<"JUDGE_RISK">>

UniversalNextSkipsJudge(ph, rnd, st) ==
    CASE ph = "gather_price" -> "gather_technical"
      [] ph = "gather_technical" -> "gather_news"
      [] ph = "gather_news" -> "gather_fundamental"
      [] ph = "gather_fundamental" -> "create_chart"
      [] ph = "create_chart" -> "bull"
      [] ph = "bull" -> "bear"
      [] ph = "bear" -> IF rnd < DEBATE_ROUNDS THEN "bull" ELSE "risky"
      [] ph = "investment_judge" -> "risky"
      [] ph = "risky" -> "safe"
      [] ph = "safe" -> "neutral"
      [] ph = "neutral" -> "risk_judge_fx"
      [] ph = "risk_judge_fx_gemini" -> IF st.chart_image THEN "risk_judge_chart" ELSE "risk_judge"
      [] ph = "risk_judge_fx" -> IF st.chart_image THEN "risk_judge_chart" ELSE "risk_judge"
      [] ph = "risk_judge_chart" -> "risk_judge"
      [] OTHER -> ph

\* Sequential order of the calls in run_universal_analysis.
UniversalNext(ph, rnd, st) ==
    CASE ph = "gather_price" -> "gather_technical"
      [] ph = "gather_technical" -> "gather_news"
      [] ph = "gather_news" -> "gather_fundamental"
      [] ph = "gather_fundamental" -> "create_chart"
      [] ph = "create_chart" -> "bull"
      [] ph = "bull" -> "bear"
      [] ph = "bear" -> IF rnd < DEBATE_ROUNDS THEN "bull" ELSE "investment_judge"
      [] ph = "investment_judge" -> "risky"
      [] ph = "risky" -> "safe"
      [] ph = "safe" -> "neutral"
      [] ph = "neutral" -> "risk_judge_fx"
      [] ph = "risk_judge_fx_gemini" -> IF st.chart_image THEN "risk_judge_chart" ELSE "risk_judge"
      [] ph = "risk_judge_fx" -> IF st.chart_image THEN "risk_judge_chart" ELSE "risk_judge"
      [] ph = "risk_judge_chart" -> "risk_judge"
      [] OTHER -> ph

\* Sequential order of the calls in run_commodity_analysis.
CommodityNext(ph, rnd, st) ==
    CASE ph = "gather_price" -> "gather_technical"
      [] ph = "gather_technical" -> "gather_news"
      [] ph = "gather_news" -> "gather_cot"
      [] ph = "gather_cot" -> "gather_fundamental"
      [] ph = "gather_fundamental" -> "bull"
      [] ph = "bull" -> "bear"
      [] ph = "bear" -> IF rnd < DEBATE_ROUNDS THEN "bull" ELSE "investment_judge"
      [] ph = "investment_judge" -> "risky"
      [] ph = "risky" -> "safe"
      [] ph = "safe" -> "neutral"
      [] ph = "neutral" -> "risk_judge"
      [] OTHER -> ph

NextPhase(ph, rnd, st) ==
    IF pipeline = "universal" THEN UniversalNext(ph, rnd, st)
    ELSE IF pipeline = "commodity" THEN CommodityNext(ph, rnd, st)
    ELSE ph

\* The analysts and the directional judge of universal_agents try the
\* vision call first when a chart exists.
StartMode(ph, st) ==
    IF pipeline = "universal" /\ st.chart_image
       /\ ph \in AnalystPhases \cup {"investment_judge", "risk_judge_chart"}
    THEN "vision" ELSE "text"

InitialState ==
    [current_price |-> 0,
     technical_data |-> Empty, news_data |-> Empty, cot_data |-> Empty,
     fundamental_data |-> Empty, chart_image |-> FALSE,
     bull_arguments |-> Empty, bear_arguments |-> Empty,
     debate_history |-> <<>>, investment_debate_history |-> <<>>, investment_decision |-> "",
     risky_arguments |-> Empty, safe_arguments |-> Empty,
     neutral_arguments |-> Empty, final_decision |-> <<>>]

Init ==
    /\ pipeline \in Pipelines
    /\ phase = (IF pipeline = "tradingagents" THEN "rm_invoke" ELSE "gather_price")
    /\ round_num = 1
    /\ attempt = 0
    /\ mode = "text"
    /\ state = InitialState
    /\ judge_response = Empty
    /\ eur_rate = FALLBACK_RATE
    /\ chart_analysis = Empty
    /\ status = "running"
    /\ error = "none"
    /\ callLog = <<>>
    /\ judgeLog = <<>>
    /\ faults = 0
    /\ visited = <<Macro(phase, 1)>>
    /\ arg = <<>>
    /\ result = NotApplied
    /\ pool = NoPool
    /\ telegram = "none"
    /\ bot = "none"
    /\ rotator = "none"

\* ------------------------------------------------------------------------
\* Bookkeeping shared by the actions
\* ------------------------------------------------------------------------
\* Answers the backend may still give within the fault budget.
Answers == IF faults < MaxFaults THEN Outcomes ELSE {"ok"}

\* One entry per request of the call: the backend's answer, what the
\* client did with it, how long it slept, and the call's max_retries.
Logged(client, outcome, res, max_retries) ==
    callLog' = (IF attempt = 0 THEN <<>> ELSE callLog)
                  \o <<[client |-> client, outcome |-> outcome, act |-> res.act,
                        delay |-> res.delay, max_retries |-> max_retries]>>

Charged(fault) == faults' = faults + (IF fault THEN 1 ELSE 0)

Completed(res) == res.act \in {"return", "exhaust"}

\* Value of a completed text call: the model's text, or "" after the loop.
Returned(res, text) == IF res.act = "return" THEN text ELSE Empty

Enter(next) ==
    /\ phase' = next
    /\ round_num' = IF phase = "bear" /\ next = "bull" THEN round_num + 1 ELSE round_num
    /\ attempt' = 0
    /\ mode' = StartMode(next, state')
    /\ visited' = IF Macro(next, round_num') = visited[Len(visited)]
                  THEN visited ELSE Append(visited, Macro(next, round_num'))
    /\ UNCHANGED <<status, error>>

Retry ==
    /\ attempt' = attempt + 1
    /\ UNCHANGED <<phase, round_num, mode, status, error, visited>>

\* except-branch of the analysts: "fallback to text".
FallBackToText ==
    /\ mode' = "text"
    /\ attempt' = 0
    /\ UNCHANGED <<phase, round_num, status, error, visited>>

\* No handler between the call and the caller of the pipeline.
Propagate(e) ==
    /\ status' = "raised"
    /\ error' = e
    /\ UNCHANGED <<phase, round_num, attempt, mode, visited>>

Finish(how) ==
    /\ status' = how
    /\ visited' = Append(visited, <<IF how = "done" THEN "DONE" ELSE "DEGRADED">>)
    /\ UNCHANGED <<phase, round_num, attempt, mode, error>>

\* max_retries of the text call of the current phase: the analysts pass 2
\* to call_gemini_flash, everything else runs on the default.
ClientMaxRetries ==
    IF pipeline = "commodity" THEN 1
    ELSE IF mode = "text" /\ phase \in AnalystPhases THEN ANALYST_MAX_RETRIES
    ELSE MAX_RETRIES

\* The inference client a text call of the current phase goes through.
ClientName ==
    IF pipeline = "commodity" THEN "call_gemini_with_search"
    ELSE IF mode = "vision" THEN "call_gemini_vision"
    ELSE "call_gemini"

Client(outcome) ==
    IF pipeline = "commodity" THEN CallGeminiPlain(outcome)
    ELSE IF mode = "vision"
    THEN CallGeminiVision(outcome, attempt, ClientMaxRetries, RETRY_DELAY)
    ELSE CallGemini(outcome, attempt, ClientMaxRetries, RETRY_DELAY)

\* Control flow after one iteration of a text call whose errors nobody but
\* the vision fallback handles.
Control(res, outcome) ==
    CASE res.act = "retry" -> Retry
      [] res.act = "raise" /\ mode = "vision" -> FallBackToText
      [] res.act = "raise" -> Propagate(outcome)
      [] OTHER -> Enter(NextPhase(phase, round_num, state'))

\* One iteration of a text call; stored maps the value of the call (the
\* text or the empty string) to the state after it.
TextCall(ph, text, stored) ==
    /\ status = "running"
    /\ phase = ph
    /\ \E outcome \in Answers :
         LET res == Client(outcome) IN
         /\ state' = IF Completed(res) THEN stored[Returned(res, text)] ELSE state
         /\ Control(res, outcome)
         /\ Logged(ClientName, outcome, res, ClientMaxRetries)
         /\ Charged(outcome # "ok")
    /\ UNCHANGED <<pure, pipeline, eur_rate, chart_analysis, judgeLog>>

\* ------------------------------------------------------------------------
\* GATHER: data_gatherer
\* ------------------------------------------------------------------------
\* Answers to the price prompt: the JSON asked for, a sentence with a
\* number in it, a sentence without one.
PriceAnswers == {<<form, p>> : form \in {"json", "number"}, p \in Prices} \cup {<<"prose">>}

\* parse_json_response, then extract_price_from_text, then 0.
ParsePrice(text) ==
    IF text = Empty \/ text[1] = "prose" THEN 0 ELSE text[2]

\* "call(...) or placeholder" in universal_agents, the bare call in
\* commodity_agents.
OrPlaceholder(v, placeholder) ==
    IF pipeline = "universal" /\ v = Empty THEN placeholder ELSE v

GatherPrice ==
    /\ \E text \in PriceAnswers :
         TextCall("gather_price", text,
                  [v \in {text, Empty} |-> [state EXCEPT !.current_price = ParsePrice(v)]])
    /\ UNCHANGED judge_response

GatherTechnical ==
    /\ TextCall("gather_technical", <<"technical">>,
                [v \in {<<"technical">>, Empty} |->
                    [state EXCEPT !.technical_data = OrPlaceholder(v, NO_TECHNICAL)]])
    /\ UNCHANGED judge_response

GatherNews ==
    /\ TextCall("gather_news", <<"news">>,
                [v \in {<<"news">>, Empty} |->
                    [state EXCEPT !.news_data = OrPlaceholder(v, NO_NEWS)]])
    /\ UNCHANGED judge_response

GatherCot ==
    /\ TextCall("gather_cot", <<"cot">>,
                [v \in {<<"cot">>, Empty} |-> [state EXCEPT !.cot_data = v]])
    /\ UNCHANGED judge_response

GatherFundamental ==
    /\ TextCall("gather_fundamental", <<"fundamental">>,
                [v \in {<<"fundamental">>, Empty} |->
                    [state EXCEPT !.fundamental_data = OrPlaceholder(v, NO_FUNDAMENTAL)]])
    /\ UNCHANGED judge_response

\* create_chart_for_analysis inside try/except: a chart or None.
CreateChart ==
    /\ status = "running"
    /\ phase = "create_chart"
    /\ \E chart \in BOOLEAN :
         /\ state' = [state EXCEPT !.chart_image = chart]
         /\ Enter(NextPhase(phase, round_num, state'))
    /\ UNCHANGED <<pure, pipeline, judge_response, eur_rate, chart_analysis, callLog,
                   judgeLog, faults>>

\* ------------------------------------------------------------------------
\* DEBATE: bull_analyst, bear_analyst and the loop around them
\* ------------------------------------------------------------------------
TurnWithoutCounter(role, rnd, text, counter) ==
    [role |-> role, round |-> rnd, text |-> text, counter |-> Empty]

\* One argument of the debate: who spoke, in which round, the text, and the
\* other side's text the prompt carried ("Arguments to Counter").
Turn(role, rnd, text, counter) ==
    [role |-> role, round |-> rnd, text |-> text, counter |-> counter]

BullAnalyst ==
    /\ TextCall("bull", ModelText("BULL", round_num),
                [v \in {ModelText("BULL", round_num), Empty} |-> [state EXCEPT
                    !.bull_arguments = v,
                    !.debate_history =
                        Append(@, Turn("BULL", round_num, v, state.bear_arguments))]])
    /\ UNCHANGED judge_response

BearAnalyst ==
    /\ TextCall("bear", ModelText("BEAR", round_num),
                [v \in {ModelText("BEAR", round_num), Empty} |-> [state EXCEPT
                    !.bear_arguments = v,
                    !.debate_history =
                        Append(@, Turn("BEAR", round_num, v, state.bull_arguments)),
                    !.investment_debate_history =
                        Append(state.debate_history,
                               Turn("BEAR", round_num, v, state.bull_arguments))]])
    /\ UNCHANGED judge_response

\* ------------------------------------------------------------------------
\* JUDGE_DIRECTION: investment_judge and _extract_decision
\* ------------------------------------------------------------------------
ExtractShortFirst(judge_text) ==
    IF Contains(judge_text, "**SHORT**") THEN "SHORT"
    ELSE IF Contains(judge_text, "**LONG**") THEN "LONG"
    ELSE "HOLD"

_extract_decision(judge_text) ==
    IF Contains(judge_text, "**LONG**") THEN "LONG"
    ELSE IF Contains(judge_text, "**SHORT**") THEN "SHORT"
    ELSE "HOLD"

JudgeSetsDecision(st, v) ==
    [st EXCEPT !.investment_debate_history = Append(@, Turn("JUDGE", 0, v, Empty)),
               !.investment_decision = _extract_decision(v)]

InvestmentJudgeOn(texts) ==
    \E text \in texts :
        /\ TextCall("investment_judge", text,
                    [v \in {text, Empty} |-> JudgeSetsDecision(state, v)])
        /\ judge_response' = IF phase' = "investment_judge" \/ status' = "raised"
                             THEN judge_response ELSE state'.investment_debate_history[
                                      Len(state'.investment_debate_history)].text

InvestmentJudge == InvestmentJudgeOn(JudgeTexts)

\* ------------------------------------------------------------------------
\* RISK_DEBATE: risky_analyst, safe_analyst, neutral_analyst
\* ------------------------------------------------------------------------
RiskyResets(st, v) ==
    [st EXCEPT !.risky_arguments = v, !.investment_decision = "HOLD"]

RiskyStores(st, v) == [st EXCEPT !.risky_arguments = v]

RiskyAnalyst ==
    /\ TextCall("risky", ModelText("RISKY", 0),
                [v \in {ModelText("RISKY", 0), Empty} |-> RiskyStores(state, v)])
    /\ UNCHANGED judge_response

SafeAnalyst ==
    /\ TextCall("safe", ModelText("SAFE", 0),
                [v \in {ModelText("SAFE", 0), Empty} |-> [state EXCEPT !.safe_arguments = v]])
    /\ UNCHANGED judge_response

NeutralAnalyst ==
    /\ TextCall("neutral", ModelText("NEUTRAL", 0),
                [v \in {ModelText("NEUTRAL", 0), Empty} |-> [state EXCEPT !.neutral_arguments = v]])
    /\ UNCHANGED judge_response

\* ------------------------------------------------------------------------
\* JUDGE_RISK of universal_agents: get_eur_usd_rate, the chart analysis and
\* the structured call of risk_judge
\* ------------------------------------------------------------------------
\* get_eur_usd_rate, first source: yfinance inside try/except.
GetEurUsdRate ==
    /\ UNCHANGED <<pure, pipeline, state, judge_response, chart_analysis, callLog, judgeLog>>
    /\ status = "running"
    /\ phase = "risk_judge_fx"
    /\ \/ /\ eur_rate' \in MarketRates
          /\ Enter(NextPhase(phase, round_num, state))
          /\ UNCHANGED faults
       \/ /\ faults < MaxFaults
          /\ Enter("risk_judge_fx_gemini")
          /\ Charged(TRUE)
          /\ UNCHANGED eur_rate

RateAnswers == {<<"json", r>> : r \in MarketRates} \cup {<<"prose">>}

\* get_eur_usd_rate, second source: call_gemini_flash and parse_json_response
\* inside try/except; 1.0 when that fails too.
EurUsdRateFromGemini ==
    /\ UNCHANGED <<pure, pipeline, state, judge_response, chart_analysis, judgeLog>>
    /\ status = "running"
    /\ phase = "risk_judge_fx_gemini"
    /\ \E outcome \in Answers, text \in RateAnswers :
         LET res == Client(outcome) IN
         /\ IF res.act = "retry"
            THEN Retry /\ UNCHANGED eur_rate
            ELSE /\ eur_rate' = IF res.act = "return" /\ text[1] = "json"
                                THEN text[2] ELSE FALLBACK_RATE
                 /\ Enter(NextPhase(phase, round_num, state))
         /\ Logged(ClientName, outcome, res, ClientMaxRetries)
         /\ Charged(outcome # "ok")

\* risk_judge: call_gemini_vision on the chart inside try/except.
ChartAnalysis ==
    /\ UNCHANGED <<pure, pipeline, state, judge_response, eur_rate, judgeLog>>
    /\ status = "running"
    /\ phase = "risk_judge_chart"
    /\ \E outcome \in Answers :
         LET res == Client(outcome) IN
         /\ IF res.act = "retry"
            THEN Retry /\ UNCHANGED chart_analysis
            ELSE /\ chart_analysis' = Returned(res, <<"chart analysis">>)
                 /\ Enter(NextPhase(phase, round_num, state))
         /\ Logged(ClientName, outcome, res, ClientMaxRetries)
         /\ Charged(outcome # "ok")

NoStrategies == [t \in {} |-> 0]

UniversalFallbackKeepsSignal(st, price_eur) ==
    [signal |-> IF st.investment_decision = "" THEN "HOLD" ELSE st.investment_decision,
     confidence |-> 0, unable_to_assess |-> TRUE,
     price_usd |-> st.current_price, price_eur |-> price_eur,
     strategies |-> NoStrategies, support_zones |-> <<>>, resistance_zones |-> <<>>,
     detailed_analysis |-> <<"Error: Could not get valid JSON after 3 attempts.">>,
     timeframes |-> HOLD_TIMEFRAMES]

\* The "error state" of universal_agents.risk_judge.
UniversalFallback(st, price_eur) ==
    [signal |-> "IGNORE", confidence |-> 0, unable_to_assess |-> TRUE,
     price_usd |-> st.current_price, price_eur |-> price_eur,
     strategies |-> NoStrategies, support_zones |-> <<>>, resistance_zones |-> <<>>,
     detailed_analysis |-> <<"Error: Could not get valid JSON after 3 attempts.">>,
     timeframes |-> HOLD_TIMEFRAMES]

\* The "error state" of commodity_agents.risk_judge.
CommodityFallback(st, price_eur) ==
    [signal |-> "IGNORE", confidence |-> 0, unable_to_assess |-> TRUE,
     price_usd |-> st.current_price, price_eur |-> price_eur,
     strategies |-> NoStrategies, support_zones |-> <<>>, resistance_zones |-> <<>>,
     detailed_analysis |-> <<"Error parsing risk judge response">>]

\* What the backend may answer a final-judgment request with, given the
\* answers the caller can parse: within the fault budget anything, beyond
\* it a text the caller can parse.
JudgeReplies(parseable) ==
    {[outcome |-> "ok", text |-> t] :
        t \in {a \in JudgeAnswers : faults < MaxFaults \/ a \in parseable}}
    \cup {[outcome |-> o, text |-> NoRecord] : o \in Answers \ {"ok"}}

JudgeEntry(prompt, outcome, parsed) ==
    [prompt |-> prompt,
     result |-> IF outcome # "ok" THEN outcome
                ELSE IF parsed THEN "parsed" ELSE "unparsed"]

\* universal_agents.risk_judge: call_gemini_json with TradeDecisionSchema,
\* every attempt with the same prompt; "if result: return result", else
\* the error state.
RiskJudge ==
    /\ status = "running"
    /\ pipeline = "universal"
    /\ phase = "risk_judge"
    /\ \E reply \in JudgeReplies({a \in JudgeAnswers : JsonLoads(a) # NoRecord}) :
         LET parsed == reply.outcome = "ok" /\ JsonLoads(reply.text) # NoRecord
             res == CallGeminiJson(reply.outcome, parsed, attempt, MAX_RETRIES)
             price_eur == (state.current_price * 100) \div eur_rate
         IN
         /\ judgeLog' = Append(judgeLog, JudgeEntry("full", reply.outcome, parsed))
         /\ CASE res.act = "retry" -> Retry /\ UNCHANGED state
              [] res.act = "return" ->
                    /\ state' = [state EXCEPT !.final_decision = reply.text.rec]
                    /\ Finish("done")
              [] OTHER ->
                    /\ state' = [state EXCEPT
                                    !.final_decision = UniversalFallback(state, price_eur)]
                    /\ Finish("degraded")
         /\ Logged("call_gemini_json", reply.outcome, res, MAX_RETRIES)
         /\ Charged(~parsed)
    /\ UNCHANGED <<pure, pipeline, judge_response, eur_rate, chart_analysis>>

\* commodity_agents.risk_judge: one call_gemini_deep_think, the fence cut
\* off, json.loads; the error state on JSONDecodeError.
CommodityRiskJudge ==
    /\ status = "running"
    /\ pipeline = "commodity"
    /\ phase = "risk_judge"
    /\ \E reply \in JudgeReplies({a \in JudgeAnswers : CommodityParse(a) # NoRecord}) :
         LET res == CallGeminiPlain(reply.outcome)
             parsed == reply.outcome = "ok" /\ CommodityParse(reply.text) # NoRecord
             price_eur == (state.current_price * COMMODITY_EUR_RATE) \div 100
         IN
         /\ judgeLog' = Append(judgeLog, JudgeEntry("full", reply.outcome, parsed))
         /\ CASE res.act = "raise" -> Propagate(reply.outcome) /\ UNCHANGED state
              [] parsed ->
                    /\ state' = [state EXCEPT !.final_decision = reply.text.rec]
                    /\ Finish("done")
              [] OTHER ->
                    /\ state' = [state EXCEPT
                                    !.final_decision = CommodityFallback(state, price_eur)]
                    /\ Finish("degraded")
         /\ Logged("call_gemini_deep_think", reply.outcome, res, 1)
         /\ Charged(~parsed)
    /\ UNCHANGED <<pure, pipeline, judge_response, eur_rate, chart_analysis>>

\* ------------------------------------------------------------------------
\* JUDGE_RISK of TradingAgents: risk_manager_node
\* ------------------------------------------------------------------------
\* llm.invoke: no loop and no handler in risk_manager_node.
LlmInvoke(outcome) ==
    IF outcome \in Errors THEN [act |-> "raise", delay |-> 0]
    ELSE IF outcome = "ok" THEN [act |-> "return", delay |-> 0]
    ELSE [act |-> "exhaust", delay |-> 0]

\* llm.invoke(prompt), parse_trade_decision_json on its text, and the return
\* of the node when a record was parsed.
RiskManagerInvoke ==
    /\ status = "running"
    /\ phase = "rm_invoke"
    /\ \E reply \in JudgeReplies({a \in JudgeAnswers : parse_trade_decision_json(a) # NoRecord}) :
         LET res == LlmInvoke(reply.outcome)
             parsed == reply.outcome = "ok"
                         /\ parse_trade_decision_json(reply.text) # NoRecord
         IN
         /\ judgeLog' = Append(judgeLog, JudgeEntry("full", reply.outcome, parsed))
         /\ CASE res.act = "raise" -> Propagate(reply.outcome) /\ UNCHANGED state
              [] parsed ->
                    /\ state' = [state EXCEPT !.final_decision = reply.text.rec]
                    /\ Finish("done")
              [] OTHER ->
                    /\ phase' = "rm_retry"
                    /\ UNCHANGED <<state, round_num, attempt, mode, status, error, visited>>
         /\ Logged("llm.invoke", reply.outcome, res, 1)
         /\ Charged(~parsed)
    /\ UNCHANGED <<pure, pipeline, judge_response, eur_rate, chart_analysis>>

\* "Retry if parsing failed": one invoke with the focused prompt, then
\* ValueError when its text has no record either.
RiskManagerRetry ==
    /\ status = "running"
    /\ phase = "rm_retry"
    /\ \E reply \in JudgeReplies({a \in JudgeAnswers : parse_trade_decision_json(a) # NoRecord}) :
         LET res == LlmInvoke(reply.outcome)
             parsed == reply.outcome = "ok"
                         /\ parse_trade_decision_json(reply.text) # NoRecord
         IN
         /\ judgeLog' = Append(judgeLog, JudgeEntry("minimal", reply.outcome, parsed))
         /\ CASE res.act = "raise" -> Propagate(reply.outcome) /\ UNCHANGED state
              [] parsed ->
                    /\ state' = [state EXCEPT !.final_decision = reply.text.rec]
                    /\ Finish("done")
              [] OTHER -> Propagate("ValueError") /\ UNCHANGED state
         /\ Logged("llm.invoke", reply.outcome, res, 1)
         /\ Charged(~parsed)
    /\ UNCHANGED <<pure, pipeline, judge_response, eur_rate, chart_analysis>>

\* ------------------------------------------------------------------------
\* Specification
\* ------------------------------------------------------------------------
Next ==
    \/ GatherPrice
    \/ GatherTechnical
    \/ GatherNews
    \/ GatherCot
    \/ GatherFundamental
    \/ CreateChart
    \/ BullAnalyst
    \/ BearAnalyst
    \/ InvestmentJudge
    \/ RiskyAnalyst
    \/ SafeAnalyst
    \/ NeutralAnalyst
    \/ GetEurUsdRate
    \/ EurUsdRateFromGemini
    \/ ChartAnalysis
    \/ RiskJudge
    \/ CommodityRiskJudge
    \/ RiskManagerInvoke
    \/ RiskManagerRetry

Spec == Init /\ [][Next]_vars

\* ------------------------------------------------------------------------
\* The directional judgment on its own: the run is at investment_judge
\* after a debate in which every call returned a text, and the judge's
\* text ranges over MarkerTexts.
\* ------------------------------------------------------------------------
DebateTurns ==
    <<Turn("BULL", 1, ModelText("BULL", 1), Empty),
      Turn("BEAR", 1, ModelText("BEAR", 1), ModelText("BULL", 1)),
      Turn("BULL", 2, ModelText("BULL", 2), ModelText("BEAR", 1)),
      Turn("BEAR", 2, ModelText("BEAR", 2), ModelText("BULL", 2))>>

DebatedState(p, chart) ==
    [InitialState EXCEPT
        !.current_price = CHOOSE price \in Prices : TRUE,
        !.technical_data = <<"technical">>,
        !.news_data = <<"news">>,
        !.cot_data = IF p = "commodity" THEN <<"cot">> ELSE Empty,
        !.fundamental_data = <<"fundamental">>,
        !.chart_image = chart,
        !.bull_arguments = ModelText("BULL", 2),
        !.bear_arguments = ModelText("BEAR", 2),
        !.debate_history = DebateTurns,
        !.investment_debate_history = DebateTurns]

AtInvestmentJudge ==
    /\ pipeline \in {"universal", "commodity"}
    /\ phase = "investment_judge"
    /\ round_num = DEBATE_ROUNDS
    /\ attempt = 0
    /\ \E chart \in BOOLEAN :
         /\ chart => pipeline = "universal"
         /\ state = DebatedState(pipeline, chart)
         /\ mode = (IF chart THEN "vision" ELSE "text")
         /\ callLog = <<[client |-> IF pipeline = "commodity" THEN "call_gemini_with_search"
                                     ELSE IF chart THEN "call_gemini_vision"
                                     ELSE "call_gemini",
                         outcome |-> "ok", act |-> "return", delay |-> 0,
                         max_retries |-> IF pipeline = "commodity" THEN 1
                                         ELSE IF chart THEN MAX_RETRIES
                                         ELSE ANALYST_MAX_RETRIES]>>
    /\ judge_response = Empty
    /\ eur_rate = FALLBACK_RATE
    /\ chart_analysis = Empty
    /\ status = "running"
    /\ error = "none"
    /\ judgeLog = <<>>
    /\ faults = 0
    /\ visited = <<<<"GATHER">>, <<"DEBATE", 1>>, <<"DEBATE", 2>>, <<"JUDGE_DIRECTION">>>>
    /\ arg = <<>>
    /\ result = NotApplied
    /\ pool = NoPool
    /\ telegram = "none"
    /\ bot = "none"
    /\ rotator = "none"

InvestmentJudgeOnMarkers == InvestmentJudgeOn(MarkerTexts)

NextJudge == InvestmentJudgeOnMarkers

SpecJudge == AtInvestmentJudge /\ [][NextJudge]_vars

\* ========================================================================
\* Properties
\* ========================================================================
Terminal == status \in {"done", "degraded"}

Last(seq) == seq[Len(seq)]

\* The final judgment ended and its last answer held no decision record.
ExtractionGaveUp ==
    /\ status # "running"
    /\ judgeLog # <<>>
    /\ Last(judgeLog).result \in {"unparsed", "empty"}

Diagnostics ==
    {<<"Error: Could not get valid JSON after 3 attempts.">>,
     <<"Error parsing risk judge response">>}

IsDegradedRecord(r) ==
    /\ r.signal = "IGNORE"
    /\ r.confidence = 0
    /\ r.unable_to_assess
    /\ r.support_zones = <<>>
    /\ r.resistance_zones = <<>>
    /\ DOMAIN r.strategies = {}
    /\ r.detailed_analysis \in Diagnostics

ExtractionFailed(entry) == entry.result \in {"unparsed", "empty"}

FirstFailure ==
    CHOOSE i \in 1..Len(judgeLog) :
        /\ ExtractionFailed(judgeLog[i])
        /\ \A j \in 1..(i - 1) : ~ExtractionFailed(judgeLog[j])

SomeFailure == \E i \in 1..Len(judgeLog) : ExtractionFailed(judgeLog[i])

Canonical ==
    <<<<"GATHER">>>> \o [r \in 1..DEBATE_ROUNDS |-> <<"DEBATE", r>>]
        \o <<<<"JUDGE_DIRECTION">>, <<"RISK_DEBATE">>, <<"JUDGE_RISK">>>>

\* C3: the phases a run has entered are, in order of entry, an initial part
\* of GATHER, DEBATE 1..N, JUDGE_DIRECTION, RISK_DEBATE, JUDGE_RISK,
\* followed by DONE or DEGRADED exactly when the run has returned: no phase
\* is skipped, repeated or entered again.
C3_PhaseOrder ==
    pipeline \in {"universal", "commodity"} =>
        /\ Len(visited) <= Len(Canonical) + 1
        /\ \A i \in 1..Len(visited) :
              IF i <= Len(Canonical) THEN visited[i] = Canonical[i]
              ELSE visited[i] \in {<<"DONE">>, <<"DEGRADED">>}
        /\ Terminal <=> Len(visited) = Len(Canonical) + 1
        /\ status = "running" => Macro(phase, round_num) = Last(visited)

C3_Witness ==
    /\ pipeline = "universal"
    /\ status = "done"
    /\ Len(visited) = Len(Canonical) + 1
    /\ state.investment_decision # ""

\* C4: once the directional decision is set, no step changes it.
C4_DecisionImmutable ==
    [][state.investment_decision # ""
        => state'.investment_decision = state.investment_decision]_vars

C4_Witness ==
    /\ state.investment_decision = "LONG"
    /\ state.risky_arguments # Empty
    /\ state.safe_arguments # Empty
    /\ state.neutral_arguments # Empty
    /\ status = "done"

\* The marker that appears earliest in the text, HOLD when there is none.
EarliestMarker(text) ==
    IF \E i \in 1..Len(text) : text[i] \in Markers
    THEN LET first == CHOOSE i \in 1..Len(text) :
                          /\ text[i] \in Markers
                          /\ \A j \in 1..(i - 1) : text[j] \notin Markers
         IN CASE text[first] = "**LONG**" -> "LONG"
              [] text[first] = "**SHORT**" -> "SHORT"
              [] OTHER -> "HOLD"
    ELSE "HOLD"

Decided == state.investment_decision # ""

\* C5 (as stated): the directional decision is the marker that appears
\* earliest in the judge's text, HOLD when the text has no marker.
C5_Original ==
    Decided => state.investment_decision = EarliestMarker(judge_response)

\* C5 (amended): the directional decision is LONG when the LONG marker
\* appears anywhere in the judge's text, otherwise SHORT when the SHORT
\* marker appears anywhere, otherwise HOLD - wherever the markers stand.
C5_LongThenShort ==
    Decided =>
        /\ Contains(judge_response, "**LONG**") => state.investment_decision = "LONG"
        /\ (~Contains(judge_response, "**LONG**") /\ Contains(judge_response, "**SHORT**"))
              => state.investment_decision = "SHORT"
        /\ (~Contains(judge_response, "**LONG**") /\ ~Contains(judge_response, "**SHORT**"))
              => state.investment_decision = "HOLD"

C5_Witness ==
    /\ Decided
    /\ Len(judge_response) >= 2
    /\ judge_response[1] = "**SHORT**"
    /\ Contains(judge_response, "**LONG**")
    /\ state.investment_decision = "LONG"

\* C6 (as stated): every record the final judgment returns has
\* unable_to_assess true exactly when its signal is IGNORE and its
\* confidence is 0.0.
C6_Claim ==
    (pipeline = "universal" /\ Terminal) =>
        (state.final_decision.unable_to_assess
            <=> (state.final_decision.signal = "IGNORE"
                   /\ state.final_decision.confidence = 0))

\* C7 (as stated): in a returned LONG record every tier's knockout level is
\* strictly below the record's price, in a SHORT record strictly above.
C7_Claim ==
    Terminal =>
        LET r == state.final_decision IN
        /\ r.signal = "LONG" =>
              \A t \in DOMAIN r.strategies : r.strategies[t].ko_level_usd < r.price_usd
        /\ r.signal = "SHORT" =>
              \A t \in DOMAIN r.strategies : r.strategies[t].ko_level_usd > r.price_usd

C10_Claim ==
    pipeline = "universal" =>
        /\ status = "raised" => phase \notin (GatherPhases \cup DebatePhases)
        /\ phase \notin GatherPhases =>
              /\ state.technical_data # Empty
              /\ state.news_data # Empty
              /\ state.fundamental_data # Empty
        /\ phase \notin (GatherPhases \cup DebatePhases) =>
              /\ state.bull_arguments # Empty
              /\ state.bear_arguments # Empty

\* The clients of gemini_utils that loop over attempts.
LoopingClients == {"call_gemini", "call_gemini_vision", "call_gemini_json"}

\* C11: whatever the backend answers, a call of call_gemini,
\* call_gemini_vision or call_gemini_json sends at most max_retries
\* requests: the request that uses up the last attempt ends the call, by a
\* return or by a raise, and no request follows it.
C11_BoundedRequests ==
    \A i \in 1..Len(callLog) :
        callLog[i].client \in LoopingClients =>
            /\ i <= callLog[i].max_retries
            /\ callLog[i].max_retries \in {ANALYST_MAX_RETRIES, MAX_RETRIES}
            /\ i = callLog[i].max_retries => callLog[i].act \in {"return", "raise", "exhaust"}
            /\ i < Len(callLog) => callLog[i].act = "retry"

C11_Witness ==
    /\ Len(callLog) = MAX_RETRIES
    /\ callLog[1].client = "call_gemini_vision"
    /\ \A i \in 1..Len(callLog) : callLog[i].outcome = "e429"
    /\ callLog[MAX_RETRIES].act = "raise"

\* ========================================================================
\* JSON extraction from a model's text
\* ========================================================================
\* A text is a sequence of pieces, separated by whitespace:
\*   "p"        prose without braces or backticks
\*   "pb"       prose in braces, e.g. {draft}: not JSON
\*   "M"        a malformed flat object, e.g. {"signal": LONG}
\*   "F"        a valid flat decision object, e.g. {"signal": "LONG"}
\*   "N"        a valid decision object with nested objects (strategies)
\*   "fence_json"  three backticks with the language tag json
\*   "fence"       three backticks
Fences == {"fence_json", "fence"}
Objects == {"F", "N"}
Braced == {"pb", "M", "F", "N"}
Pieces == {"p"} \cup Braced \cup Fences

ExtractTexts == SeqsUpTo(Pieces, MaxTextLen)

\* json.loads inside try/except JSONDecodeError: the object when the whole
\* text is one valid object, else None.
_try_parse(text) ==
    IF Len(text) = 1 /\ text[1] \in Objects THEN text[1] ELSE "none"

\* Position of the first fence after position i, Len + 1 when there is none:
\* where text.split on the fence and the backtick-free group stop.
NextFence(text, i) ==
    IF \E k \in (i + 1)..Len(text) : text[k] \in Fences
    THEN CHOOSE k \in (i + 1)..Len(text) :
            /\ text[k] \in Fences
            /\ \A j \in (i + 1)..(k - 1) : text[j] \notin Fences
    ELSE Len(text) + 1

strip_markdown_code_block(text) ==
    LET content == IF text # <<>> /\ text[1] \in Fences
                   THEN SubSeq(text, 2, NextFence(text, 1) - 1)
                   ELSE text
    IN IF content # <<>> /\ content[Len(content)] = "fence"
       THEN SubSeq(content, 1, Len(content) - 1)
       ELSE content

\* The slice from text.find of the opening brace to text.rfind of the
\* closing one (and the greedy brace-to-brace pattern of signal_extractor):
\* from the first brace to the last one; empty when the text has no braces.
BraceSpan(text) ==
    LET at == {i \in 1..Len(text) : text[i] \in Braced} IN
    IF at = {} THEN <<>>
    ELSE SubSeq(text, CHOOSE i \in at : \A j \in at : i <= j,
                      CHOOSE i \in at : \A j \in at : i >= j)

parse_json_response(response_text) ==
    IF response_text = <<>> THEN "none"
    ELSE LET text == strip_markdown_code_block(response_text) IN
         IF _try_parse(text) # "none" THEN _try_parse(text)
         ELSE _try_parse(BraceSpan(text))

\* re.search of a fenced pattern: an opening fence, an object in braces
\* free of backticks, a closing fence.  The group of the leftmost match,
\* empty when nothing matches.
FencedGroup(text, opening) ==
    LET matches == {i \in 1..Len(text) :
                      /\ text[i] = opening
                      /\ NextFence(text, i) <= Len(text)
                      /\ NextFence(text, i) > i + 1
                      /\ text[i + 1] \in Braced
                      /\ text[NextFence(text, i) - 1] \in Braced}
    IN IF matches = {} THEN <<>>
       ELSE LET i == CHOOSE m \in matches : \A j \in matches : m <= j
            IN SubSeq(text, i + 1, NextFence(text, i) - 1)

\* risk_manager.parse_trade_decision_json on a text of pieces: the fenced
\* patterns in turn, then the last flat object naming "signal".
ParseTradeDecisionJson(text) ==
    LET flat == {i \in 1..Len(text) : text[i] \in {"M", "F"}} IN
    IF _try_parse(FencedGroup(text, "fence_json")) # "none"
    THEN _try_parse(FencedGroup(text, "fence_json"))
    ELSE IF _try_parse(FencedGroup(text, "fence")) # "none"
    THEN _try_parse(FencedGroup(text, "fence"))
    ELSE IF flat # {} /\ text[CHOOSE i \in flat : \A j \in flat : i >= j] = "F"
    THEN "F"
    ELSE "none"

\* signal_extractor.extract_signal_with_claude, from the response text on:
\* the fences cut off, json.loads, then json.loads of the brace span outside
\* any handler; "minimal" is the HOLD signal built when nothing is found.
extract_signal_with_claude(response_text) ==
    LET opened == IF response_text # <<>> /\ response_text[1] \in Fences
                  THEN SubSeq(response_text, 2, Len(response_text))
                  ELSE response_text
        text == IF response_text # <<>> /\ response_text[1] \in Fences
                   /\ opened # <<>> /\ opened[Len(opened)] = "fence"
                THEN SubSeq(opened, 1, Len(opened) - 1)
                ELSE opened
    IN IF _try_parse(text) # "none" THEN _try_parse(text)
       ELSE IF BraceSpan(text) = <<>> THEN "minimal"
       ELSE IF _try_parse(BraceSpan(text)) # "none" THEN _try_parse(BraceSpan(text))
       ELSE "raise"

\* The pipelines are not running while a helper function is studied.
PipelineIdle ==
    /\ pipeline = "none"
    /\ phase = "idle"
    /\ round_num = 1
    /\ attempt = 0
    /\ mode = "text"
    /\ state = InitialState
    /\ judge_response = Empty
    /\ eur_rate = FALLBACK_RATE
    /\ chart_analysis = Empty
    /\ status = "idle"
    /\ error = "none"
    /\ callLog = <<>>
    /\ judgeLog = <<>>
    /\ faults = 0
    /\ visited = <<>>

PipelineUntouched ==
    UNCHANGED <<pipeline, phase, round_num, attempt, mode, state, judge_response,
                eur_rate, chart_analysis, status, error, callLog, judgeLog, faults,
                visited>>

Apply(fn, value) ==
    /\ result = NotApplied
    /\ result' = [fn |-> fn, value |-> value]
    /\ UNCHANGED <<arg, pool, telegram, bot, rotator>>
    /\ PipelineUntouched

InitExtract ==
    /\ PipelineIdle
    /\ arg \in ExtractTexts
    /\ result = NotApplied
    /\ pool = NoPool
    /\ telegram = "none"
    /\ bot = "none"
    /\ rotator = "none"

ApplyParseJsonResponse == Apply("parse_json_response", parse_json_response(arg))

ApplyParseTradeDecisionJson ==
    Apply("parse_trade_decision_json", ParseTradeDecisionJson(arg))

ApplyExtractSignal ==
    Apply("extract_signal_with_claude", extract_signal_with_claude(arg))

NextExtract ==
    \/ ApplyParseJsonResponse
    \/ ApplyParseTradeDecisionJson
    \/ ApplyExtractSignal

SpecExtract == InitExtract /\ [][NextExtract]_vars

Extractors ==
    {"parse_json_response", "parse_trade_decision_json", "extract_signal_with_claude"}

\* No piece of the text is valid JSON.
NoJsonAnywhere(text) == \A i \in 1..Len(text) : text[i] \notin Objects

\* C12 (as stated): on a text with no parseable JSON anywhere - empty,
\* prose, or malformed JSON - extraction returns its failure value (None,
\* or the minimal fallback signal) and never raises.
C12_Claim ==
    (result.fn \in Extractors /\ NoJsonAnywhere(arg))
        => result.value \in {"none", "minimal"}

\* The text is a fenced block holding one object, at position i, with
\* nothing but prose before and after it.
FencedObjectAt(text, i) ==
    /\ i + 2 <= Len(text)
    /\ text[i] \in Fences
    /\ text[i + 1] \in Objects
    /\ text[i + 2] = "fence"
    /\ \A j \in 1..Len(text) : j \notin i..(i + 2) => text[j] \in {"p", "pb"}

\* C13 (as stated): on a text that contains a fenced JSON block holding a
\* decision object, extraction returns the object of that block, whatever
\* prose stands before or after the block.
C13_Claim ==
    \A i \in 1..Len(arg) :
        (result.fn \in {"parse_json_response", "parse_trade_decision_json"}
            /\ FencedObjectAt(arg, i))
        => result.value = arg[i + 1]

\* C14: in round i the bull speaks with the bear's text of round i - 1 in
\* its prompt (nothing in round 1), the bear speaks after it with the
\* bull's text of round i, and once the debate is over the transcript holds
\* exactly 2 x DEBATE_ROUNDS arguments: bull 1, bear 1, ..., bull N, bear N.
C14_DebateAlternates ==
    pipeline \in {"universal", "commodity"} =>
        LET transcript == state.debate_history IN
        /\ Len(transcript) <= 2 * DEBATE_ROUNDS
        /\ \A k \in 1..Len(transcript) :
              /\ transcript[k].role = (IF k % 2 = 1 THEN "BULL" ELSE "BEAR")
              /\ transcript[k].round = (k + 1) \div 2
              /\ transcript[k].counter = (IF k = 1 THEN Empty ELSE transcript[k - 1].text)
        /\ phase \in DebatePhases =>
              Len(transcript) = 2 * (round_num - 1) + (IF phase = "bear" THEN 1 ELSE 0)
        /\ phase \notin (GatherPhases \cup DebatePhases) =>
              /\ Len(transcript) = 2 * DEBATE_ROUNDS
              /\ Len(state.investment_debate_history) >= 2 * DEBATE_ROUNDS
              /\ SubSeq(state.investment_debate_history, 1, 2 * DEBATE_ROUNDS) = transcript

C14_Witness ==
    /\ pipeline = "universal"
    /\ phase = "investment_judge"
    /\ Len(state.debate_history) = 2 * DEBATE_ROUNDS
    /\ \A k \in 1..Len(state.debate_history) : state.debate_history[k].text # Empty
    /\ state.debate_history[3].counter = state.debate_history[2].text

\* ---------------------------------------------------------------------------
\* Several symbols at once: comparison_worker.main and
\* portfolio_worker.run_portfolio_analysis
\* ---------------------------------------------------------------------------

\* max_workers of the executor each worker opens.
PoolLimitPerSymbol(worker, symbols) == symbols

PoolLimit(worker, symbols) ==
    IF worker = "comparison"
    THEN (IF symbols < COMPARISON_WORKERS THEN symbols ELSE COMPARISON_WORKERS)
    ELSE PORTFOLIO_WORKERS

\* The symbols a request can name; nothing keeps a request from naming one
\* twice, and resolve_symbol can give one symbol for two names.
SymbolNames == {"GOLD", "SILVER"}

NewPool(worker, names) ==
    [worker |-> worker, names |-> names, symbols |-> Len(names),
     max_workers |-> PoolLimit(worker, Len(names)), submitted |-> 0,
     queue |-> <<>>, threads |-> 0, running |-> {}, completed |-> <<>>,
     results |-> <<>>, closed |-> FALSE]

\* main refuses fewer than MIN_COMPARE and more than MAX_COMPARE symbols; a
\* portfolio has at least one position.
InitPool ==
    /\ PipelineIdle
    /\ arg = <<>>
    /\ result = NotApplied
    /\ \E worker \in {"comparison", "portfolio"} :
          \E symbols \in 1..MaxSymbols :
              /\ worker = "comparison" => symbols \in MIN_COMPARE..MAX_COMPARE
              /\ \E names \in [1..symbols -> SymbolNames] :
                    pool = NewPool(worker, names)
    /\ telegram = "none"
    /\ bot = "none"
    /\ rotator = "none"

PoolStep(next) ==
    /\ pool.worker # "none"
    /\ ~pool.closed
    /\ pool' = next
    /\ UNCHANGED <<arg, result, telegram, bot, rotator>>
    /\ PipelineUntouched

\* executor.submit(run_single_analysis, sym, ...): the work item is queued,
\* and the executor starts one more thread when none is free and it has
\* fewer than max_workers.
PoolSubmit ==
    /\ pool.submitted < pool.symbols
    /\ LET free == pool.threads - Cardinality(pool.running) - Len(pool.queue)
           grow == free <= 0 /\ pool.threads < pool.max_workers
       IN PoolStep([pool EXCEPT !.submitted = @ + 1,
                                !.queue = Append(@, pool.submitted + 1),
                                !.threads = IF grow THEN @ + 1 ELSE @])

\* A free thread of the executor takes the oldest queued item and enters
\* run_single_analysis, that is one whole pipeline run.
PoolRun ==
    /\ pool.queue # <<>>
    /\ Cardinality(pool.running) < pool.threads
    /\ PoolStep([pool EXCEPT !.queue = Tail(@),
                             !.running = @ \cup {Head(pool.queue)}])

\* run_single_analysis returns: it catches every exception of the pipeline
\* and reports it as success False. Its dict carries the symbol it was
\* given; run remembers which submission it answers.
PoolFinish ==
    \E sym \in pool.running : \E success \in BOOLEAN :
        PoolStep([pool EXCEPT !.running = @ \ {sym},
                              !.completed = Append(@, [symbol |-> pool.names[sym], run |-> sym,
                                                       success |-> success])])

\* as_completed(futures), entered after the last submit, yields the
\* futures in the order they finished.
PoolCollect ==
    /\ pool.submitted = pool.symbols
    /\ Len(pool.results) < Len(pool.completed)
    /\ PoolStep([pool EXCEPT !.results = Append(@, pool.completed[Len(pool.results) + 1])])

\* symbols.index(x): the first place of the list that holds x.
symbols_index(symbols, x) ==
    CHOOSE i \in 1..Len(symbols) :
        symbols[i] = x /\ \A j \in 1..(i - 1) : symbols[j] # x

\* results.sort(key=lambda x: symbols.index(x["symbol"])), from key k on:
\* list.sort is stable, entries with one key stay in the order they were
\* collected.
RECURSIVE SortResults(_, _, _)
SortResults(results, symbols, k) ==
    IF k > Len(symbols) THEN <<>>
    ELSE SelectSeq(results, LAMBDA r : symbols_index(symbols, r["symbol"]) = k)
         \o SortResults(results, symbols, k + 1)

\* The loop over the positions looks each symbol up in analysis_results,
\* where a later result for a symbol has replaced an earlier one.
AnalysisResults(results, symbols) ==
    [i \in 1..Len(symbols) |->
        LET last == CHOOSE k \in 1..Len(results) :
                        /\ results[k]["symbol"] = symbols[i]
                        /\ \A j \in (k + 1)..Len(results) : results[j]["symbol"] # symbols[i]
        IN results[last]]

\* The with block ends once every future was collected; the comparison
\* worker then sorts its list, the portfolio worker walks its positions.
PoolClose ==
    /\ Len(pool.results) = pool.symbols
    /\ PoolStep([pool EXCEPT
           !.results = IF pool.worker = "comparison"
                       THEN SortResults(@, pool.names, 1)
                       ELSE AnalysisResults(@, pool.names),
           !.closed = TRUE])

NextPool ==
    \/ PoolSubmit
    \/ PoolRun
    \/ PoolFinish
    \/ PoolCollect
    \/ PoolClose

SpecPool == InitPool /\ [][NextPool]_vars

\* C15: at no moment are more pipeline runs in progress than the pool limit,
\* 2 in the comparison worker and 3 in the portfolio worker, however many
\* symbols were submitted and in whatever order the runs finish.
C15_PoolBounded ==
    /\ pool.worker = "comparison" => Cardinality(pool.running) <= COMPARISON_WORKERS
    /\ pool.worker = "portfolio" => Cardinality(pool.running) <= PORTFOLIO_WORKERS
    /\ pool.closed => pool.running = {} /\ Len(pool.results) = pool.symbols

\* More symbols than the limit, the limit reached, symbols waiting, and the
\* runs so far finished out of submission order.
C15_Witness ==
    /\ pool.worker = "portfolio"
    /\ pool.symbols > PORTFOLIO_WORKERS
    /\ Cardinality(pool.running) = PORTFOLIO_WORKERS
    /\ pool.queue # <<>>
    /\ Len(pool.completed) = 0

\* C28: in the comparison worker, once all runs have completed the result
\* list holds exactly one entry per requested symbol, in the order in which
\* the symbols were requested, whatever the order the runs completed in.
C28_Claim ==
    (pool.worker = "comparison" /\ pool.closed) =>
        /\ Len(pool.results) = Len(pool.names)
        /\ \A i \in 1..Len(pool.names) : pool.results[i]["symbol"] = pool.names[i]

\* The same for requests that name no symbol twice: there the entry at
\* place i is the answer to submission i.
C28_DistinctSymbols ==
    (/\ pool.worker = "comparison"
     /\ pool.closed
     /\ \A i, j \in 1..Len(pool.names) : pool.names[i] = pool.names[j] => i = j) =>
        /\ Len(pool.results) = Len(pool.names)
        /\ \A i \in 1..Len(pool.names) : pool.results[i].run = i


\* ---------------------------------------------------------------------------
\* Barrier proximity: portfolio_worker.calculate_ko_proximity and the bands
\* of format_portfolio_output
\* ---------------------------------------------------------------------------

\* Prices and barriers are whole currency units; a proximity is in
\* hundredths of a percent, rounded down (100.0 is 10000).
NO_KO_RISK == 10000
KO_CRITICAL == 500
KO_WARNING == 1000
KO_CAUTION == 1500

Directions == {"LONG", "SHORT", "NORMAL"}

calculate_ko_proximity(current_price, knockout_level, direction) ==
    IF knockout_level <= 0 \/ current_price <= 0 THEN NO_KO_RISK
    ELSE IF direction = "LONG"
         THEN ((current_price - knockout_level) * 10000) \div current_price
    ELSE IF direction = "SHORT"
         THEN ((knockout_level - current_price) * 10000) \div current_price
    ELSE NO_KO_RISK

\* The status format_portfolio_output shows next to the proximity.
ko_emoji(ko_proximity) ==
    IF ko_proximity < KO_CRITICAL THEN "critical"
    ELSE IF ko_proximity < KO_WARNING THEN "warning"
    ELSE IF ko_proximity < KO_CAUTION THEN "caution"
    ELSE "safe"

\* The price run_portfolio_analysis passes is price_usd or price_eur of the
\* decision, 0 when the analysis of the symbol failed; the knockout_level
\* of a position is 0 for a normal stock, -1 for a mistyped one.
InitProximity ==
    /\ PipelineIdle
    /\ pool = NoPool
    /\ telegram = "none"
    /\ bot = "none"
    /\ rotator = "none"
    /\ result = NotApplied
    /\ \E current_price \in (0..MaxLevel) \cup {82} :
          \E knockout_level \in (-1..MaxLevel) \cup {80} :
          \E direction \in Directions :
              arg = [current_price |-> current_price,
                     knockout_level |-> knockout_level, direction |-> direction]

ApplyKoProximity ==
    LET ko_proximity ==
            calculate_ko_proximity(arg.current_price, arg.knockout_level, arg.direction)
    IN Apply("calculate_ko_proximity",
             [ko_proximity |-> ko_proximity, ko_emoji |-> ko_emoji(ko_proximity)])

SpecProximity == InitProximity /\ [][ApplyKoProximity]_vars

\* value is the exact quotient numerator / denominator rounded down to a
\* whole number (denominator 0 has no quotient).
RoundsDown(value, numerator, denominator) ==
    /\ denominator > 0
    /\ value * denominator <= numerator
    /\ numerator < (value + 1) * denominator

\* C16: the proximity is (price - barrier) / price x 100 for a LONG
\* position, (barrier - price) / price x 100 for a SHORT position, and the
\* constant no-risk value for a NORMAL position or a barrier <= 0; LONG with
\* barrier 80 at price 82 gets about 2.44, in the critical band.
C16_Claim ==
    result.fn = "calculate_ko_proximity" =>
        LET got == result.value.ko_proximity IN
        /\ arg.direction = "NORMAL" \/ arg.knockout_level <= 0 => got = NO_KO_RISK
        /\ arg.direction = "LONG" /\ arg.knockout_level > 0 =>
              RoundsDown(got, (arg.current_price - arg.knockout_level) * 10000,
                         arg.current_price)
        /\ arg.direction = "SHORT" /\ arg.knockout_level > 0 =>
              RoundsDown(got, (arg.knockout_level - arg.current_price) * 10000,
                         arg.current_price)
        /\ arg.direction = "LONG" /\ arg.knockout_level = 80 /\ arg.current_price = 82 =>
              /\ got \in 243..244
              /\ result.value.ko_emoji = "critical"

\* ---------------------------------------------------------------------------
\* Position strings: portfolio_worker.parse_position
\* ---------------------------------------------------------------------------

\* A position string is a sequence of pieces: the delimiter "-" and tokens
\* that hold no delimiter. What float() makes of a token, in hundredths;
\* every other token raises ValueError.
Float ==
    [t \in {"0", "1", "78", "956", "4.16", "15.5", "49.40"} |->
        CASE t = "0" -> 0
          [] t = "1" -> 100
          [] t = "78" -> 7800
          [] t = "956" -> 95600
          [] t = "4.16" -> 416
          [] t = "15.5" -> 1550
          [] t = "49.40" -> 4940]

\* str.upper on the tokens that have lower-case letters.
Upper(token) ==
    CASE token = "long" -> "LONG"
      [] token = "eur" -> "EUR"
      [] OTHER -> token

\* The fields a user encodes. A name is a sequence of pieces of its own,
\* a performance is absent (<<>>) or a sign and a numeral.
PositionFields ==
    [name : {<<"SILVER">>, <<"BTC", "-", "USD">>},
     direction : {"LONG", "SHORT", "NORMAL", "long", "HOLD"},
     value : {"956", "abc"},
     factor : {"1", "4.16"},
     barrier : {"0", "78"},
     performance : {<<>>, <<"+", "49.40">>, <<"-", "15.5">>},
     currency : {"", "USD", "EUR", "eur"}]

\* NAME-DIRECTION-VALUE-FACTOR-BARRIER[-PERFORMANCE][-CURRENCY]; a negative
\* performance is written with its minus sign after the delimiter.
Encode(f) ==
    f.name \o <<"-", f.direction, "-", f.value, "-", f.factor, "-", f.barrier>>
      \o (IF f.performance = <<>> THEN <<>>
          ELSE IF f.performance[1] = "-" THEN <<"-", "-", f.performance[2]>>
          ELSE <<"-", f.performance[2]>>)
      \o (IF f.currency = "" THEN <<>> ELSE <<"-", f.currency>>)

\* pos_str.replace("--", "-NEG"): left to right, without overlap.
RECURSIVE Normalized(_)
Normalized(pos_str) ==
    IF pos_str = <<>> THEN <<>>
    ELSE IF Len(pos_str) >= 2 /\ pos_str[1] = "-" /\ pos_str[2] = "-"
         THEN <<"-", "NEG">> \o Normalized(SubSeq(pos_str, 3, Len(pos_str)))
    ELSE <<pos_str[1]>> \o Normalized(Tail(pos_str))

\* str.split("-"): the parts between the delimiters, each the sequence of
\* tokens it is made of.
RECURSIVE Split(_)
Split(pieces) ==
    IF \A i \in 1..Len(pieces) : pieces[i] # "-" THEN <<pieces>>
    ELSE LET at == CHOOSE i \in 1..Len(pieces) :
                     pieces[i] = "-" /\ \A j \in 1..(i - 1) : pieces[j] # "-"
         IN <<SubSeq(pieces, 1, at - 1)>>
              \o Split(SubSeq(pieces, at + 1, Len(pieces)))

\* The parts parse_position works with.
PartsAsWritten(pos_str) == Split(pos_str)

NormalizedParts(pos_str) == Split(Normalized(pos_str))

\* float(part) succeeds on exactly one numeral token.
IsFloat(part) == Len(part) = 1 /\ part[1] \in DOMAIN Float

\* part.upper() of a part of one token; a part of several tokens or of
\* none matches no keyword.
UpperPart(part) == IF Len(part) = 1 THEN Upper(part[1]) ELSE "?"

\* <<>> is None, <<p>> is the Position p. performance is <<>> for None.
parse_position(pos_str) ==
    LET parts == NormalizedParts(pos_str)
        direction == UpperPart(parts[2])
        part5 == parts[6]
        negative == Len(part5) >= 1 /\ part5[1] = "NEG"
        number == IF negative THEN Tail(part5) ELSE part5
        plain == Len(parts) > 5 /\ UpperPart(part5) \notin {"USD", "EUR"}
        performance ==
            IF ~plain THEN <<>>
            ELSE IF negative THEN <<0 - Float[number[1]]>> ELSE <<Float[number[1]]>>
        currency ==
            IF Len(parts) > 5 /\ UpperPart(part5) \in {"USD", "EUR"} THEN UpperPart(part5)
            ELSE IF plain /\ Len(parts) > 6 /\ UpperPart(parts[7]) \in {"USD", "EUR"}
                 THEN UpperPart(parts[7])
            ELSE "USD"
    IN IF Len(parts) < 5 THEN <<>>
       ELSE IF direction \notin Directions THEN <<>>
       ELSE IF ~(IsFloat(parts[3]) /\ IsFloat(parts[4]) /\ IsFloat(parts[5])) THEN <<>>
       ELSE IF plain /\ ~IsFloat(number) THEN <<>>
       ELSE <<[symbol |-> "", display_name |-> parts[1], direction |-> direction,
               current_value |-> Float[parts[3][1]], factor |-> Float[parts[4][1]],
               knockout_level |-> Float[parts[5][1]], performance |-> performance,
               currency |-> currency]>>

InitPosition ==
    /\ PipelineIdle
    /\ pool = NoPool
    /\ telegram = "none"
    /\ bot = "none"
    /\ rotator = "none"
    /\ result = NotApplied
    /\ \E f \in PositionFields : arg = [pos_str |-> Encode(f), fields |-> f]

ApplyParsePosition == Apply("parse_position", parse_position(arg.pos_str))

SpecPosition == InitPosition /\ [][ApplyParsePosition]_vars

\* The string has the stated form: a known direction and numerals in the
\* numeric fields.
OfTheForm(f) ==
    /\ Upper(f.direction) \in Directions
    /\ f.value \in DOMAIN Float

\* The position the fields stand for.
Encoded(f) ==
    [symbol |-> "", display_name |-> f.name, direction |-> Upper(f.direction),
     current_value |-> Float[f.value], factor |-> Float[f.factor],
     knockout_level |-> Float[f.barrier],
     performance |-> IF f.performance = <<>> THEN <<>>
                     ELSE IF f.performance[1] = "-" THEN <<0 - Float[f.performance[2]]>>
                     ELSE <<Float[f.performance[2]]>>,
     currency |-> IF f.currency = "" THEN "USD" ELSE Upper(f.currency)]

\* C17 as stated: every string NAME-DIRECTION-VALUE-FACTOR-BARRIER
\* [-PERFORMANCE][-CURRENCY] parses to the encoded fields, and every string
\* with an unknown direction token parses to no position.
C17_Original ==
    result.fn = "parse_position" =>
        /\ OfTheForm(arg.fields) => result.value = <<Encoded(arg.fields)>>
        /\ Upper(arg.fields.direction) \notin Directions => result.value = <<>>

\* C17: when NAME holds no delimiter, the string parses to the encoded fields,
\* a doubled delimiter before PERFORMANCE read as a negative performance and
\* keywords read without regard to case; a string with an unknown direction
\* token, and every string whose NAME holds a delimiter followed by a token
\* that is no direction, parses to no position.
C17_DelimiterFreeName ==
    result.fn = "parse_position" =>
        LET f == arg.fields IN
        /\ OfTheForm(f) /\ Len(f.name) = 1 => result.value = <<Encoded(f)>>
        /\ Upper(f.direction) \notin Directions => result.value = <<>>
        /\ Len(f.name) > 1 /\ Upper(f.name[3]) \notin Directions => result.value = <<>>

\* A loss written with the doubled delimiter, followed by a currency in
\* lower case, parsed with a negative performance.
C17_Witness ==
    /\ result.fn = "parse_position"
    /\ arg.fields.name = <<"SILVER">>
    /\ arg.fields.performance = <<"-", "15.5">>
    /\ arg.fields.currency = "eur"
    /\ result.value # <<>>
    /\ result.value[1].performance = <<0 - 1550>>
    /\ result.value[1].currency = "EUR"

\* ---------------------------------------------------------------------------
\* Portfolio risk: RiskCommand._calculate_risk_metrics
\* ---------------------------------------------------------------------------

\* Position values are whole euros, betas and correlations are hundredths.
\* A weight is kept as its numerator over total_value, so that a comparison
\* with a threshold is exact: weight > 0.8 is value * 100 > 80 * total_value.
\* The symbols of the portfolio, numbered in the order of the dictionary.
Holdings == 1..2

\* The pairs the double loop over symbols_with_returns visits.
Pairs(symbols) == {p \in symbols \X symbols : p[1] < p[2]}

RECURSIVE SumOf(_)
SumOf(f) ==
    IF DOMAIN f = {} THEN 0
    ELSE LET x == CHOOSE x \in DOMAIN f : TRUE
         IN f[x] + SumOf([y \in DOMAIN f \ {x} |-> f[y]])

MaxOf(S) == IF S = {} THEN 0 ELSE CHOOSE m \in S : \A n \in S : n <= m

\* Sector concentration adds risk.
SectorPenaltyTopTierLowest(max_sector_value, total_value) ==
    IF max_sector_value * 100 > 80 * total_value THEN SECTOR_LOW
    ELSE IF max_sector_value * 100 > 60 * total_value THEN SECTOR_MID
    ELSE IF max_sector_value * 100 > 40 * total_value THEN SECTOR_LOW
    ELSE 0

SectorPenalty(max_sector_value, total_value) ==
    IF max_sector_value * 100 > 80 * total_value THEN SECTOR_HIGH
    ELSE IF max_sector_value * 100 > 60 * total_value THEN SECTOR_MID
    ELSE IF max_sector_value * 100 > 40 * total_value THEN SECTOR_LOW
    ELSE 0

\* High beta adds risk. beta_value is the sum of value * beta.
BetaPenalty(beta_value, total_value) ==
    IF beta_value > 150 * total_value THEN 15
    ELSE IF beta_value > 120 * total_value THEN 10
    ELSE 0

\* High correlation adds risk. The average is corr_sum / corr_count, and 0
\* when no pair has a correlation.
CorrelationPenalty(corr_sum, corr_count) ==
    IF corr_count = 0 THEN 0
    ELSE IF corr_sum > 70 * corr_count THEN 10
    ELSE IF corr_sum > 50 * corr_count THEN 5
    ELSE 0

Top2Penalty(top_2_value, total_value) ==
    IF top_2_value * 100 > 70 * total_value THEN 10 ELSE 0

\* The score is the sum of the terms, kept within 0..100.
risk_score(m) ==
    LET score == BASE_SCORE
                   + SectorPenalty(m.max_sector_value, m.total_value)
                   + BetaPenalty(m.beta_value, m.total_value)
                   + CorrelationPenalty(m.corr_sum, m.corr_count)
                   + m.upcoming_earnings * 3
                   + Top2Penalty(m.top_2_value, m.total_value)
    IN IF score > 100 THEN 100 ELSE IF score < 0 THEN 0 ELSE score

_calculate_risk_metrics(portfolio, portfolio_data, pair_data) ==
    LET total_value == SumOf(portfolio)
        fetched == {s \in DOMAIN portfolio : portfolio_data[s].fetched}
        sector_value(sector) ==
            SumOf([s \in {t \in fetched : portfolio_data[t].sector = sector} |->
                      portfolio[s]])
        max_sector_value ==
            MaxOf({sector_value(portfolio_data[s].sector) : s \in fetched})
        top ==
            CHOOSE s \in DOMAIN portfolio : \A t \in DOMAIN portfolio :
                portfolio[t] <= portfolio[s]
        top_2_value ==
            IF Cardinality(DOMAIN portfolio) >= 2
            THEN portfolio[top]
                   + MaxOf({portfolio[t] : t \in DOMAIN portfolio \ {top}})
            ELSE total_value
        beta_value ==
            SumOf([s \in fetched |-> portfolio[s] * portfolio_data[s].beta])
        correlations ==
            {p \in Pairs(fetched) : pair_data[p].overlap > MIN_OVERLAP}
        corr_sum == SumOf([p \in correlations |-> pair_data[p].corr])
        upcoming_earnings ==
            Cardinality({s \in fetched : portfolio_data[s].earnings_soon})
        aggregates ==
            [total_value |-> total_value, max_sector_value |-> max_sector_value,
             top_2_value |-> top_2_value, beta_value |-> beta_value,
             corr_sum |-> corr_sum, corr_count |-> Cardinality(correlations),
             upcoming_earnings |-> upcoming_earnings]
    IN [aggregates |-> aggregates, correlations |-> correlations,
        risk_score |-> risk_score(aggregates)]

\* fetched is FALSE when _fetch_portfolio_data found nothing for the
\* symbol; overlap is len(common_idx) of the two return series of a pair and
\* corr the value pandas computes for them.
InitRisk ==
    /\ PipelineIdle
    /\ pool = NoPool
    /\ telegram = "none"
    /\ bot = "none"
    /\ rotator = "none"
    /\ result = NotApplied
    /\ \E portfolio \in [Holdings -> {1, 3}] :
          \E portfolio_data \in [Holdings -> [fetched : BOOLEAN,
                                                sector : {"Technology", "Energy"},
                                                beta : {100, 160},
                                                earnings_soon : BOOLEAN]] :
              \E pair_data \in [Pairs(Holdings) ->
                                    [overlap : (MIN_OVERLAP - 1)..MaxOverlap,
                                     corr : {40, 60, 80}]] :
                  arg = [portfolio |-> portfolio, portfolio_data |-> portfolio_data,
                         pair_data |-> pair_data]

ApplyRiskMetrics ==
    Apply("_calculate_risk_metrics",
          _calculate_risk_metrics(arg.portfolio, arg.portfolio_data, arg.pair_data))

SpecRisk == InitRisk /\ [][ApplyRiskMetrics]_vars

\* The score the same portfolio would get with one aggregate replaced.
ScoreWith(field, value) ==
    risk_score([result.value.aggregates EXCEPT ![field] = value])

\* Values an aggregate can be moved to.
SectorValues == 0..result.value.aggregates.total_value
BetaValues == {b * result.value.aggregates.total_value : b \in {0, 100, 120, 121, 150, 151, 200}}
AverageValues == {0, 50, 51, 70, 71, 100}

\* C18: the composite score never decreases when the maximum sector weight,
\* the average pairwise correlation or the portfolio beta increases while
\* the other inputs stay fixed; two positions of 50% each in one sector give
\* a maximum sector weight of 1.0 and the largest sector penalty.
C18_ScoreMonotone ==
    result.fn = "_calculate_risk_metrics" =>
        LET m == result.value.aggregates
            score == result.value.risk_score
        IN /\ \A v \in SectorValues :
                 /\ v >= m.max_sector_value => ScoreWith("max_sector_value", v) >= score
                 /\ v <= m.max_sector_value => ScoreWith("max_sector_value", v) <= score
           /\ \A v \in BetaValues :
                 /\ v >= m.beta_value => ScoreWith("beta_value", v) >= score
                 /\ v <= m.beta_value => ScoreWith("beta_value", v) <= score
           /\ m.corr_count = 1 => \A v \in AverageValues :
                 /\ v >= m.corr_sum => ScoreWith("corr_sum", v) >= score
                 /\ v <= m.corr_sum => ScoreWith("corr_sum", v) <= score
           /\ (/\ \A s \in Holdings : arg.portfolio_data[s].fetched
               /\ arg.portfolio[1] = arg.portfolio[2]
               /\ arg.portfolio_data[1].sector = arg.portfolio_data[2].sector)
                 => /\ m.max_sector_value = m.total_value
                    /\ SectorPenalty(m.max_sector_value, m.total_value) = SECTOR_HIGH
                    /\ score >= BASE_SCORE + SECTOR_HIGH

\* Two positions of 50% each in one sector: the largest sector penalty is
\* in the score, and the score is below 100, so that a lower sector weight
\* would show as a lower score.
C18_Witness ==
    /\ result.fn = "_calculate_risk_metrics"
    /\ \A s \in Holdings : arg.portfolio_data[s].fetched
    /\ arg.portfolio[1] = arg.portfolio[2]
    /\ arg.portfolio_data[1].sector = arg.portfolio_data[2].sector
    /\ result.value.aggregates.max_sector_value = result.value.aggregates.total_value
    /\ result.value.risk_score < 100
    /\ ScoreWith("max_sector_value", 0) = result.value.risk_score - SECTOR_HIGH

\* C19: a pair of symbols contributes a correlation value if and only if
\* the two return series share at least 20 observations; a pair with
\* exactly 20 is included.
C19_Claim ==
    result.fn = "_calculate_risk_metrics" =>
        \A p \in Pairs(Holdings) :
            (arg.portfolio_data[p[1]].fetched /\ arg.portfolio_data[p[2]].fetched) =>
                (p \in result.value.correlations <=> arg.pair_data[p].overlap >= 20)

\* The fields of TradeDecisionSchema and of its nested models.
TradeDecisionSchema ==
    [fields |-> {"signal", "confidence", "unable_to_assess", "price_usd",
                 "price_eur", "strategies", "support_zones", "resistance_zones",
                 "detailed_analysis", "timeframes"},
     strategies |-> {"conservative", "moderate", "aggressive"},
     knockout_strategy |-> {"ko_level_usd", "distance_pct", "risk"},
     timeframes |-> {"short_term", "medium_term", "long_term"}]

\* C20: every record the pipeline returns, the degraded fallback included,
\* has the same shape: signal, confidence, unable_to_assess, the price
\* fields, strategies with conservative, moderate and aggressive entries
\* each holding the knockout level, distance_pct and risk, support_zones,
\* resistance_zones, timeframes with short_term, medium_term and long_term,
\* and detailed_analysis.
C20_Claim ==
    (pipeline \in {"universal", "commodity"} /\ status \in {"done", "degraded"}) =>
        LET r == state.final_decision IN
        /\ DOMAIN r = TradeDecisionSchema.fields
        /\ DOMAIN r.strategies = TradeDecisionSchema.strategies
        /\ \A t \in TradeDecisionSchema.strategies :
              DOMAIN r.strategies[t] = TradeDecisionSchema.knockout_strategy
        /\ DOMAIN r.timeframes = TradeDecisionSchema.timeframes

\* ---------------------------------------------------------------------------
\* The worker entry point: telegram_worker.main and run_analysis
\* ---------------------------------------------------------------------------

\* What run_analysis hands to run_universal_analysis of its forced_direction:
\* the call passes symbol, trade_date and lang only.
run_analysis(forced_direction) == "none"

\* The environment of one invocation. exit_code is <<>> while main runs;
\* unhandled tells that main was left by an exception nothing caught.
InitTelegram ==
    /\ PipelineIdle
    /\ arg = <<>>
    /\ result = NotApplied
    /\ pool = NoPool
    /\ bot = "none"
    /\ rotator = "none"
    /\ \E env \in [SYMBOL : {"", "AAPL"}, CHAT_ID : {"", "42"},
                   DIRECTION : {"", "long", "short", "up"},
                   BUDGET : {"", "null", "100", "abc"}] :
          telegram = [env |-> env, pc |-> "validate", direction |-> "none",
                      pipeline_direction |-> "none", analysis |-> "none",
                      record |-> <<>>, exit_code |-> <<>>, unhandled |-> FALSE]

TelegramStep(next) ==
    /\ telegram' = next
    /\ UNCHANGED <<arg, result, pool, bot, rotator>>
    /\ PipelineUntouched

\* The checks before the symbol is resolved: a direction other than long or
\* short is no direction; without a symbol or a chat main returns 1.
TelegramValidate ==
    /\ telegram.pc = "validate"
    /\ LET direction == IF telegram.env.DIRECTION \in {"long", "short"}
                        THEN telegram.env.DIRECTION ELSE "none"
       IN IF telegram.env.SYMBOL = "" \/ telegram.env.CHAT_ID = ""
          THEN TelegramStep([telegram EXCEPT !.pc = "exit", !.direction = direction,
                                             !.exit_code = <<1>>])
          ELSE TelegramStep([telegram EXCEPT !.pc = "resolve", !.direction = direction])

\* resolve_symbol and float(budget_str), both before the try block:
\* call_gemini_flash raises once its attempts are used up, and float raises
\* on a budget that is no number.
TelegramResolve ==
    /\ telegram.pc = "resolve"
    /\ \E outcome \in {"ok", "raise"} :
          IF outcome = "raise" \/ telegram.env.BUDGET = "abc"
          THEN TelegramStep([telegram EXCEPT !.pc = "exit", !.unhandled = TRUE])
          ELSE TelegramStep([telegram EXCEPT !.pc = "stock"])

\* get_stock_data inside the try block: an exception is reported to the
\* chat and main returns 1.
TelegramGetStockData ==
    /\ telegram.pc = "stock"
    /\ \E outcome \in {"ok", "raise"} :
          IF outcome = "raise"
          THEN TelegramStep([telegram EXCEPT !.pc = "exit", !.exit_code = <<1>>])
          ELSE TelegramStep([telegram EXCEPT !.pc = "analysis"])

\* run_analysis: the pipeline returns a decision record, returns the error
\* state of risk_judge, or raises.
TelegramRunAnalysis ==
    /\ telegram.pc = "analysis"
    /\ \/ \E rec \in ModelRecords :
             TelegramStep([telegram EXCEPT
                 !.pc = "send", !.analysis = "done", !.record = <<rec>>,
                 !.pipeline_direction = run_analysis(telegram.direction)])
       \/ \E price \in {0} \cup Prices :
             TelegramStep([telegram EXCEPT
                 !.pc = "send", !.analysis = "degraded",
                 !.record = <<UniversalFallback([InitialState EXCEPT !.current_price = price],
                                                FALLBACK_RATE)>>,
                 !.pipeline_direction = run_analysis(telegram.direction)])
       \/ TelegramStep([telegram EXCEPT
              !.pc = "exit", !.analysis = "raised", !.exit_code = <<1>>,
              !.pipeline_direction = run_analysis(telegram.direction)])

\* format_analyze_result and send_telegram_message: main returns 0 when the
\* message was sent and 1 otherwise.
TelegramSend ==
    /\ telegram.pc = "send"
    /\ \E success \in BOOLEAN :
          TelegramStep([telegram EXCEPT !.pc = "exit",
                                        !.exit_code = IF success THEN <<0>> ELSE <<1>>])

NextTelegram ==
    \/ TelegramValidate
    \/ TelegramResolve
    \/ TelegramGetStockData
    \/ TelegramRunAnalysis
    \/ TelegramSend

SpecTelegram == InitTelegram /\ [][NextTelegram]_vars

\* The invocation named a symbol and a chat, and main ended without a record
\* that holds an assessment.
TotalFailure ==
    /\ telegram.pc = "exit"
    /\ telegram.env.SYMBOL # "" /\ telegram.env.CHAT_ID # ""
    /\ telegram.analysis # "done"

\* C21: when a run fails totally for the requested symbol, the worker ends
\* with a non-zero exit status and a degraded record has been produced; it
\* never ends with an unhandled exception and never with status zero.
C21_Claim ==
    TotalFailure =>
        /\ ~telegram.unhandled
        /\ telegram.exit_code # <<>>
        /\ telegram.exit_code # <<0>>
        /\ telegram.record # <<>>
        /\ IsDegradedRecord(telegram.record[1])

\* C22: a forced direction (long or short) reaches the pipeline and the
\* signal of the returned record is that direction; the pipeline chooses
\* the direction itself only when none is forced.
C22_Claim ==
    telegram.record # <<>> =>
        /\ telegram.pipeline_direction = telegram.direction
        /\ telegram.direction = "long" => telegram.record[1].signal = "LONG"
        /\ telegram.direction = "short" => telegram.record[1].signal = "SHORT"

\* ---------------------------------------------------------------------------
\* Recommended actions: portfolio_worker.generate_portfolio_recommendations
\* ---------------------------------------------------------------------------

\* The categories the prompt names; the answer is the text call_gemini_pro
\* returns, which names one of them for the position.
Recommendations == {"SALE", "TAKE_PROFIT", "HOLD", "BUY_MORE", "RESTRUCTURE"}

\* One assessment of a position, by the three inputs of the decision table.
InitRecommend ==
    /\ PipelineIdle
    /\ result = NotApplied
    /\ pool = NoPool
    /\ telegram = "none"
    /\ bot = "none"
    /\ rotator = "none"
    /\ arg \in [ko_band : {"critical", "warning", "caution", "safe"},
                signal_agrees : BOOLEAN,
                profit_sign : {-1, 0, 1}]

\* The function builds the prompt from the assessment and returns what the
\* model answers: no rule of the program picks the action. result.value
\* collects the answers of successive calls on the same assessment.
GeneratePortfolioRecommendations ==
    /\ result.fn = "none" \/ Len(result.value) < 2
    /\ \E answer \in Recommendations :
          result' = [fn |-> "generate_portfolio_recommendations",
                     value |-> (IF result.fn = "none" THEN <<>> ELSE result.value)
                                 \o <<answer>>]
    /\ UNCHANGED <<arg, pool, telegram, bot, rotator>>
    /\ PipelineUntouched

SpecRecommend == InitRecommend /\ [][GeneratePortfolioRecommendations]_vars

\* C23: the recommended action is a fixed function of the proximity band,
\* the agreement of signal and direction, and the sign of the profit: two
\* assessments with equal values of the three always yield the same action.
C23_Claim ==
    (result.fn = "generate_portfolio_recommendations" /\ Len(result.value) = 2) =>
        result.value[1] = result.value[2]

\* How far a tier's knockout level lies on the losing side of the price,
\* in whole currency units: below the price for LONG, above it for SHORT.
TierDistance(r, t) ==
    IF r.signal = "LONG" THEN r.price_usd - r.strategies[t].ko_level_usd
    ELSE r.strategies[t].ko_level_usd - r.price_usd

\* low% <= distance / price <= high%, without division.
InBand(r, t, low, high) ==
    /\ low * r.price_usd <= TierDistance(r, t) * 100
    /\ TierDistance(r, t) * 100 <= high * r.price_usd

\* C24: for every price > 0 the tiers of a returned LONG record lie 15-25%,
\* 10-15% and 5-10% below the price (SHORT: above it), so that the
\* conservative distance > the moderate distance > the aggressive distance;
\* at price 100 and LONG the conservative barrier is in [75, 85] and the
\* aggressive one in [90, 95].
C24_Claim ==
    (pipeline = "universal" /\ status = "done"
        /\ state.final_decision.signal \in {"LONG", "SHORT"}
        /\ state.final_decision.price_usd > 0) =>
        LET r == state.final_decision IN
        /\ DOMAIN r.strategies = TradeDecisionSchema.strategies
        /\ InBand(r, "conservative", 15, 25)
        /\ InBand(r, "moderate", 10, 15)
        /\ InBand(r, "aggressive", 5, 10)
        /\ TierDistance(r, "conservative") > TierDistance(r, "moderate")
        /\ TierDistance(r, "moderate") > TierDistance(r, "aggressive")
        /\ (r.signal = "LONG" /\ r.price_usd = 100) =>
              /\ r.strategies["conservative"].ko_level_usd \in 75..85
              /\ r.strategies["aggressive"].ko_level_usd \in 90..95

\* ---------------------------------------------------------------------------
\* Signals of the daily run: TradingSignal.is_actionable and DailySummary
\* ---------------------------------------------------------------------------

\* The method has the parameter min_confidence and never reads it.
is_actionable(signal, min_confidence) ==
    signal.signal_type \in {"BUY", "SELL", "LONG", "SHORT", "SUPPORT_ALERT", "RESISTANCE_ALERT"}

add_signal(summary, signal) ==
    IF signal.signal_type \in {"BUY", "LONG"}
    THEN [summary EXCEPT !.buy_signals = Append(@, signal)]
    ELSE IF signal.signal_type \in {"SELL", "SHORT"}
    THEN [summary EXCEPT !.sell_signals = Append(@, signal)]
    ELSE IF signal.signal_type = "SUPPORT_ALERT"
    THEN [summary EXCEPT !.support_alerts = Append(@, signal)]
    ELSE IF signal.signal_type = "RESISTANCE_ALERT"
    THEN [summary EXCEPT !.resistance_alerts = Append(@, signal)]
    ELSE IF signal.signal_type = "NEWS_ALERT"
    THEN [summary EXCEPT !.news_alerts = Append(@, signal)]
    ELSE [summary EXCEPT !.hold_signals = Append(@, signal)]

\* top_pick is <<>> for None.
determine_top_pick(summary) ==
    LET all_actionable == summary.buy_signals \o summary.sell_signals
    IN IF all_actionable # <<>>
       THEN [summary EXCEPT !.top_pick = <<all_actionable[1]>>]
       ELSE summary

\* The signals of one day, in the order they will be added, and the
\* threshold the caller passes; confidences are percent. result.value is
\* the DailySummary once a signal was added: added counts the signals.
InitSignals ==
    /\ PipelineIdle
    /\ result = NotApplied
    /\ pool = NoPool
    /\ telegram = "none"
    /\ bot = "none"
    /\ rotator = "none"
    /\ \E signals \in SeqsUpTo([signal_type : {"BUY", "SELL", "LONG", "SHORT", "HOLD",
                                              "SUPPORT_ALERT", "RESISTANCE_ALERT",
                                              "NEWS_ALERT"},
                                confidence : {50, 80}], MaxSignals) :
          arg = [signals |-> signals, min_confidence |-> 65]

ApplyIsActionable ==
    /\ arg.signals # <<>>
    /\ Apply("is_actionable", is_actionable(arg.signals[1], arg.min_confidence))

CallAddSignal ==
    /\ result.fn \in {"none", "add_signal"}
    /\ LET summary ==
               IF result.fn = "none"
               THEN [buy_signals |-> <<>>, sell_signals |-> <<>>, support_alerts |-> <<>>,
                     resistance_alerts |-> <<>>, hold_signals |-> <<>>,
                     news_alerts |-> <<>>, top_pick |-> <<>>, added |-> 0]
               ELSE result.value
       IN /\ summary.added < Len(arg.signals)
          /\ result' = [fn |-> "add_signal",
                        value |-> [add_signal(summary, arg.signals[summary.added + 1])
                                       EXCEPT !.added = @ + 1]]
    /\ UNCHANGED <<arg, pool, telegram, bot, rotator>>
    /\ PipelineUntouched

\* Called once every signal of the day was added.
CallDetermineTopPick ==
    /\ result.fn = "add_signal"
    /\ result.value.added = Len(arg.signals)
    /\ result' = [fn |-> "determine_top_pick", value |-> determine_top_pick(result.value)]
    /\ UNCHANGED <<arg, pool, telegram, bot, rotator>>
    /\ PipelineUntouched

NextSignals ==
    \/ ApplyIsActionable
    \/ CallAddSignal
    \/ CallDetermineTopPick

SpecSignals == InitSignals /\ [][NextSignals]_vars

\* C25: is_actionable(min_confidence) is true only for a signal of an
\* actionable type whose confidence is at least min_confidence: a BUY
\* signal below min_confidence is not actionable, a HOLD signal never is.
C25_Claim ==
    result.fn = "is_actionable" =>
        /\ result.value =>
              /\ arg.signals[1].signal_type \in
                    {"BUY", "SELL", "LONG", "SHORT", "SUPPORT_ALERT", "RESISTANCE_ALERT"}
              /\ arg.signals[1].confidence >= arg.min_confidence
        /\ arg.signals[1].signal_type = "HOLD" => ~result.value

\* The buy and sell signals among the signals added.
Picks ==
    {arg.signals[i] : i \in {k \in 1..Len(arg.signals) :
        arg.signals[k].signal_type \in {"BUY", "LONG", "SELL", "SHORT"}}}

\* C26: after determine_top_pick the top pick is the buy or sell signal
\* with the highest confidence among the signals added, whatever their
\* order; it stays unset when no buy or sell signal was added.
C26_Claim ==
    result.fn = "determine_top_pick" =>
        IF Picks = {} THEN result.value.top_pick = <<>>
        ELSE /\ result.value.top_pick # <<>>
             /\ result.value.top_pick[1] \in Picks
             /\ \A s \in Picks : s.confidence <= result.value.top_pick[1].confidence

\* ---------------------------------------------------------------------------
\* The daily run: TradingBot.run
\* ---------------------------------------------------------------------------

\* What an attempt can end with: success, or an exception whose text does or
\* does not carry "429" or "rate_limit" (in any case).
AttemptOutcomes == {"ok", "429 Too Many Requests", "Rate_Limit reached", "ValueError"}

IsRateLimitAlways(error_str) == TRUE

\* "429" in error_str or "rate_limit" in error_str.lower()
IsRateLimit(error_str) == error_str \in {"429 Too Many Requests", "Rate_Limit reached"}

\* A run over 1..stocks. history[s] lists the outcomes of the attempts for
\* stock s; signals[s] and errors[s] count what the summary got for it.
InitBot ==
    /\ PipelineIdle
    /\ arg = <<>>
    /\ result = NotApplied
    /\ pool = NoPool
    /\ telegram = "none"
    /\ rotator = "none"
    /\ \E stocks \in 1..MaxStocks :
          bot = [stocks |-> stocks, i |-> 1, retry_count |-> 0, success |-> FALSE,
                 broke |-> FALSE,
                 history |-> [s \in 1..stocks |-> <<>>],
                 signals |-> [s \in 1..stocks |-> 0],
                 errors |-> [s \in 1..stocks |-> 0]]

\* One pass of the while loop for stock i.
BotAttempt ==
    /\ bot.i <= bot.stocks
    /\ bot.retry_count < BOT_MAX_RETRIES /\ ~bot.success /\ ~bot.broke
    /\ \E outcome \in AttemptOutcomes :
          LET tried == [bot EXCEPT !.history[bot.i] = Append(@, outcome)] IN
          bot' = IF outcome = "ok"
                 THEN [tried EXCEPT !.signals[bot.i] = @ + 1, !.success = TRUE]
                 ELSE IF IsRateLimit(outcome)
                 THEN IF bot.retry_count + 1 < BOT_MAX_RETRIES
                      THEN [tried EXCEPT !.retry_count = @ + 1]
                      ELSE [tried EXCEPT !.retry_count = @ + 1, !.errors[bot.i] = @ + 1]
                 ELSE [tried EXCEPT !.errors[bot.i] = @ + 1, !.broke = TRUE]
    /\ UNCHANGED <<arg, result, pool, telegram, rotator>>
    /\ PipelineUntouched

\* The while loop has ended: the for loop goes on to the next stock.
BotNextStock ==
    /\ bot.i <= bot.stocks
    /\ ~(bot.retry_count < BOT_MAX_RETRIES /\ ~bot.success /\ ~bot.broke)
    /\ bot' = [bot EXCEPT !.i = @ + 1, !.retry_count = 0, !.success = FALSE,
                          !.broke = FALSE]
    /\ UNCHANGED <<arg, result, pool, telegram, rotator>>
    /\ PipelineUntouched

NextBot ==
    \/ BotAttempt
    \/ BotNextStock

SpecBot == InitBot /\ [][NextBot]_vars

\* The while loop of stock s has ended.
LoopEnded(s) ==
    \/ s < bot.i
    \/ s = bot.i /\ ~(bot.retry_count < BOT_MAX_RETRIES /\ ~bot.success /\ ~bot.broke)

\* C27: for every stock the analysis is attempted at most 3 times, a
\* further attempt follows only a rate-limit error, and when the loop for
\* the stock ends exactly one outcome has been recorded for it: one signal
\* or one error message, never both and never neither.
C27_OneOutcomePerStock ==
    \A s \in 1..bot.stocks :
        /\ Len(bot.history[s]) <= 3
        /\ \A k \in 1..(Len(bot.history[s]) - 1) :
              bot.history[s][k] \in {"429 Too Many Requests", "Rate_Limit reached"}
        /\ bot.signals[s] + bot.errors[s] <= 1
        /\ LoopEnded(s) => bot.signals[s] + bot.errors[s] = 1
        /\ ~LoopEnded(s) => bot.signals[s] + bot.errors[s] = 0

\* A stock that hit the rate limit twice and then got its signal, after a
\* stock that used up its three attempts and got its error message.
C27_Witness ==
    /\ bot.stocks >= 2
    /\ bot.i > 2
    /\ Len(bot.history[1]) = 3 /\ bot.errors[1] = 1 /\ bot.signals[1] = 0
    /\ Len(bot.history[2]) = 3 /\ bot.signals[2] = 1 /\ bot.errors[2] = 0

\* ---------------------------------------------------------------------------
\* The shared key rotator: AlphaVantageKeyRotator
\* ---------------------------------------------------------------------------

\* Two threads of a pool share the one rotator; each calls get_key once and
\* may then report its key as rate limited.
Threads == {"t1", "t2"}

\* One rotator with 1..MaxKeys keys, named 0..keys-1 by their place in
\* self.keys. get_key takes no lock: every read and every write of the
\* shared fields is a step of its own, and the threads interleave freely.
\* rate_limited_until is seen from the now of the calls: no entry, an
\* entry already in the past, an entry still in the future.
InitRotator ==
    /\ PipelineIdle
    /\ arg = <<>>
    /\ result = NotApplied
    /\ pool = NoPool
    /\ telegram = "none"
    /\ bot = "none"
    /\ \E keys \in 1..MaxKeys :
          \E current_index \in 0..(keys - 1) :
              \E rate_limited_until \in [0..(keys - 1) -> {"absent", "expired", "blocked"}] :
                  rotator = [keys |-> keys, current_index |-> current_index,
                             rate_limited_until |-> rate_limited_until,
                             request_count |-> [k \in 0..(keys - 1) |-> 0],
                             pc |-> [t \in Threads |-> "call"],
                             attempts |-> [t \in Threads |-> 0],
                             key |-> [t \in Threads |-> 0],
                             loaded |-> [t \in Threads |-> 0],
                             outcome |-> [t \in Threads |-> "none"],
                             as_serial |-> [t \in Threads |-> TRUE]]

RotatorStep(next) ==
    /\ rotator' = next
    /\ UNCHANGED <<arg, result, pool, telegram, bot>>
    /\ PipelineUntouched

\* while attempts < len(self.keys): key = self.keys[self.current_index];
\* after the loop, raise AlphaVantageRateLimitError. as_serial remembers
\* whether the outcome is one a call running alone could have at this
\* moment: the error only when every key is blocked.
GetKeyLoop(t) ==
    /\ rotator.pc[t] \in {"call", "while"}
    /\ LET attempts == IF rotator.pc[t] = "call" THEN 0 ELSE rotator.attempts[t] IN
       IF attempts < rotator.keys
       THEN RotatorStep([rotator EXCEPT !.attempts[t] = attempts,
                                        !.key[t] = rotator.current_index,
                                        !.pc[t] = "in"])
       ELSE RotatorStep([rotator EXCEPT
                !.attempts[t] = attempts,
                !.outcome[t] = "AlphaVantageRateLimitError",
                !.as_serial[t] = \A k \in 0..(rotator.keys - 1) :
                                     rotator.rate_limited_until[k] = "blocked",
                !.pc[t] = "done"])

\* if key in self.rate_limited_until
GetKeyIn(t) ==
    /\ rotator.pc[t] = "in"
    /\ RotatorStep([rotator EXCEPT
           !.pc[t] = IF rotator.rate_limited_until[rotator.key[t]] = "absent"
                     THEN "load_count" ELSE "compare"])

\* if now < self.rate_limited_until[key]: the subscript raises KeyError
\* when the entry is gone by now.
GetKeyCompare(t) ==
    /\ rotator.pc[t] = "compare"
    /\ LET until == rotator.rate_limited_until[rotator.key[t]] IN
       RotatorStep(
           IF until = "absent"
           THEN [rotator EXCEPT !.outcome[t] = "KeyError", !.pc[t] = "done"]
           ELSE IF until = "blocked"
           THEN [rotator EXCEPT !.pc[t] = "skip"]
           ELSE [rotator EXCEPT !.pc[t] = "del"])

\* self.current_index = (self.current_index + 1) % len(self.keys);
\* attempts += 1; continue
GetKeySkip(t) ==
    /\ rotator.pc[t] = "skip"
    /\ RotatorStep([rotator EXCEPT !.current_index = (@ + 1) % rotator.keys,
                                   !.attempts[t] = @ + 1,
                                   !.pc[t] = "while"])

\* del self.rate_limited_until[key]: KeyError when the entry is gone.
GetKeyDel(t) ==
    /\ rotator.pc[t] = "del"
    /\ RotatorStep(
           IF rotator.rate_limited_until[rotator.key[t]] = "absent"
           THEN [rotator EXCEPT !.outcome[t] = "KeyError", !.pc[t] = "done"]
           ELSE [rotator EXCEPT !.rate_limited_until[rotator.key[t]] = "absent",
                                !.pc[t] = "load_count"])

\* self.request_count[key] += 1, first half: the count is read.
GetKeyLoadCount(t) ==
    /\ rotator.pc[t] = "load_count"
    /\ RotatorStep([rotator EXCEPT !.loaded[t] = rotator.request_count[rotator.key[t]],
                                   !.pc[t] = "store_count"])

\* self.request_count[key] += 1, second half: the count read plus one is
\* written.
GetKeyStoreCount(t) ==
    /\ rotator.pc[t] = "store_count"
    /\ RotatorStep([rotator EXCEPT !.request_count[rotator.key[t]] = rotator.loaded[t] + 1,
                                   !.pc[t] = "rotate"])

\* self.current_index = (self.current_index + 1) % len(self.keys);
\* return key
GetKeyReturn(t) ==
    /\ rotator.pc[t] = "rotate"
    /\ RotatorStep([rotator EXCEPT
           !.current_index = (@ + 1) % rotator.keys,
           !.outcome[t] = "key",
           !.as_serial[t] = rotator.rate_limited_until[rotator.key[t]] # "blocked",
           !.pc[t] = "returned"])

\* mark_rate_limited(key), called by _make_api_request for the key it got
\* when the service answers with its rate-limit notice.
mark_rate_limited(t) ==
    /\ rotator.pc[t] = "returned"
    /\ RotatorStep([rotator EXCEPT !.rate_limited_until[rotator.key[t]] = "blocked",
                                   !.pc[t] = "done"])

NextRotator ==
    \E t \in Threads :
        \/ GetKeyLoop(t)
        \/ GetKeyIn(t)
        \/ GetKeyCompare(t)
        \/ GetKeySkip(t)
        \/ GetKeyDel(t)
        \/ GetKeyLoadCount(t)
        \/ GetKeyStoreCount(t)
        \/ GetKeyReturn(t)
        \/ mark_rate_limited(t)

SpecRotator == InitRotator /\ [][NextRotator]_vars

RECURSIVE CountSum(_, _)
CountSum(count, n) == IF n = 0 THEN 0 ELSE count[n - 1] + CountSum(count, n - 1)

\* C29: concurrent get_key calls behave like the same calls one at a time:
\* each returns a key that is not blocked at that moment or raises
\* AlphaVantageRateLimitError when all keys are blocked, none fails with
\* another exception, and the request counts sum to the number of keys
\* returned.
C29_Claim ==
    /\ \A t \in Threads : rotator.outcome[t] # "KeyError"
    /\ \A t \in Threads : rotator.as_serial[t]
    /\ (\A t \in Threads : rotator.pc[t] \in {"returned", "done"}) =>
          CountSum(rotator.request_count, rotator.keys)
              = Cardinality({t \in Threads : rotator.outcome[t] = "key"})

\* A call is suspended at the continue after it skipped blocked key 0; the
\* other call returns key 1 and moves the index back to 0; the first call
\* looks at key 0 again and raises although key 1 is free.
C29_ErrorOnlyWhenAllBlocked ==
    \A t \in Threads :
        rotator.outcome[t] = "AlphaVantageRateLimitError" => rotator.as_serial[t]

\* Both calls see the expired entry of a key; the second to delete it fails.
C29_KeyError ==
    \A t \in Threads : rotator.outcome[t] # "KeyError"

\* Both calls return and one increment of the count is lost.
C29_CountsAddUp ==
    (\A t \in Threads : rotator.outcome[t] = "key") =>
        CountSum(rotator.request_count, rotator.keys) = 2

\* ---------------------------------------------------------------------------
\* The price of a position: portfolio_worker.run_portfolio_analysis
\* ---------------------------------------------------------------------------

\* What analysis_results holds for a position's symbol: nothing, the dict
\* of a failed run (no result in it), or the dict of a run that succeeded,
\* whose decision record may lack a price field (<<>>) or carry 0, the price
\* of an asset no price was found for.
Analyses ==
    {[present |-> FALSE, success |-> FALSE, price_usd |-> <<>>, price_eur |-> <<>>],
     [present |-> TRUE, success |-> FALSE, price_usd |-> <<>>, price_eur |-> <<>>]}
    \cup [present : {TRUE}, success : {TRUE},
          price_usd : {<<>>, <<0>>, <<82>>}, price_eur : {<<>>, <<0>>, <<78>>}]

PositionPriceDefaultOne(pos, analysis) ==
    IF analysis.present /\ analysis.success
    THEN LET price == IF pos.currency = "EUR" THEN analysis.price_eur
                      ELSE analysis.price_usd
         IN IF price = <<>> THEN 1 ELSE price[1]
    ELSE 0

\* current_price = 0; if analysis.get("success"): trade.get("price_eur", 0)
\* for a position in EUR, trade.get("price_usd", 0) otherwise.
position_price(pos, analysis) ==
    IF analysis.present /\ analysis.success
    THEN LET price == IF pos.currency = "EUR" THEN analysis.price_eur
                      ELSE analysis.price_usd
         IN IF price = <<>> THEN 0 ELSE price[1]
    ELSE 0

InitPositionPrice ==
    /\ PipelineIdle
    /\ pool = NoPool
    /\ telegram = "none"
    /\ bot = "none"
    /\ rotator = "none"
    /\ result = NotApplied
    /\ \E currency \in {"EUR", "USD"} :
          \E knockout_level \in {0, 78, 80} :
          \E direction \in Directions :
          \E analysis \in Analyses :
              arg = [pos |-> [currency |-> currency, knockout_level |-> knockout_level,
                              direction |-> direction],
                     analysis |-> analysis]

\* One pass of the loop that builds positions_with_analysis, and the status
\* format_portfolio_output shows for its entry.
BuildPositionWithAnalysis ==
    LET current_price == position_price(arg.pos, arg.analysis)
        ko_proximity ==
            calculate_ko_proximity(current_price, arg.pos.knockout_level, arg.pos.direction)
    IN Apply("run_portfolio_analysis",
             [current_price |-> current_price, ko_proximity |-> ko_proximity,
              ko_emoji |-> ko_emoji(ko_proximity)])

SpecPositionPrice == InitPositionPrice /\ [][BuildPositionWithAnalysis]_vars

\* The record of the position's symbol holds no price in the position's
\* currency.
CarriesNoPrice ==
    IF arg.pos.currency = "EUR" THEN arg.analysis.price_eur = <<>>
    ELSE arg.analysis.price_usd = <<>>

\* C30: when the analysis of a position's symbol failed or its record
\* carries no price, the position's price is taken as 0 and its barrier
\* proximity is reported as 100.0, the safe band, also for a LONG or SHORT
\* position with a positive knockout level.
C30_NoPriceIsSafe ==
    (/\ result.fn = "run_portfolio_analysis"
     /\ (~arg.analysis.present \/ ~arg.analysis.success \/ CarriesNoPrice)) =>
        /\ result.value.current_price = 0
        /\ result.value.ko_proximity = NO_KO_RISK
        /\ result.value.ko_emoji = "safe"

\* A SHORT position in EUR with its barrier at 80 whose run succeeded with
\* a record that has price_usd but no price_eur.
C30_Witness ==
    /\ result.fn = "run_portfolio_analysis"
    /\ arg.pos.direction = "SHORT"
    /\ arg.pos.currency = "EUR"
    /\ arg.pos.knockout_level = 80
    /\ arg.analysis.success
    /\ arg.analysis.price_usd = <<82>>
    /\ arg.analysis.price_eur = <<>>
    /\ result.value.ko_proximity = NO_KO_RISK

====
